---- MODULE Spec2Model ----
(***************************************************************************)
(* TrafficLab: snapshot window loader and graph state mutator of the       *)
(* real-time ETA inference (backend/models/real_time_inference.py,         *)
(* backend/models/temporal_dataset.py, backend/models/eta_inference.py).   *)
(*                                                                         *)
(* Numbers that the program keeps as floats are kept here in fixed point,  *)
(* in thousandths (log-normalised demand/occupancy, min-max speed).        *)
(* Python indices are 0-based and are kept 0-based; element i of a Python  *)
(* list is element i+1 of the TLA+ sequence.                               *)
(***************************************************************************)
EXTENDS Integers, Sequences, FiniteSets, TLC

(***************************************************************************)
(* Bounds of the model.                                                    *)
(***************************************************************************)
MaxVeh == 2        \* vehicles already present in a stored snapshot
MaxRoute == 2      \* edges in the route of an insertion request
MaxFiles == 3      \* snapshot files in the data directory
MaxW == 3          \* configured window_size

(***************************************************************************)
(* Generic helpers.                                                        *)
(***************************************************************************)
Range(s) == {s[i] : i \in 1..Len(s)}

Max2(a, b) == IF a >= b THEN a ELSE b

Abs(a) == IF a >= 0 THEN a ELSE 0 - a

\* list.index(v): 0-based index of the first occurrence (caller checks membership)
IndexOf(s, v) == (CHOOSE i \in 1..Len(s) : s[i] = v /\ \A j \in 1..(i-1) : s[j] # v) - 1

\* elements of s at the positions where keep is TRUE (tensor[keep_mask])
RECURSIVE SelectMask(_, _)
SelectMask(s, keep) ==
    IF s = << >> THEN << >>
    ELSE IF Head(keep) THEN << Head(s) >> \o SelectMask(Tail(s), Tail(keep))
         ELSE SelectMask(Tail(s), Tail(keep))

\* the ascending sequence of a finite set of integers
RECURSIVE SortedSeq(_)
SortedSeq(S) ==
    IF S = {} THEN << >>
    ELSE LET m == CHOOSE a \in S : \A b \in S : a <= b
         IN << m >> \o SortedSeq(S \ {m})

(***************************************************************************)
(* Normalization registry (fallback statistics of real_time_inference.py). *)
(* log1p and expm1 are tabulated in thousandths.                           *)
(***************************************************************************)
DemandLogMean == 522
DemandLogStd == 837
OccLogMean == 93
OccLogStd == 325
SpeedMax == 33330

\* math.log1p(k) * 1000 for the raw counts k = 0..11
Log1pMilli(k) == << 0, 693, 1099, 1386, 1609, 1792, 1946, 2079, 2197, 2303, 2398, 2485 >>[k + 1]

\* ln(k + 0.5) * 1000: expm1(v) rounds to k exactly when LnHalfMilli(k) <= v < LnHalfMilli(k+1)
LnHalfMilli(k) == << -693, 405, 916, 1253, 1504, 1705, 1872, 2015, 2140, 2251, 2351, 2442, 2526 >>[k + 1]

\* max(0, int(math.expm1(v))): the count cut off instead of rounded
TruncExpm1(v) ==
    IF v < 0 THEN 0
    ELSE CHOOSE k \in 0..11 : Log1pMilli(k) <= v /\ (k = 11 \/ v < Log1pMilli(k + 1))

\* max(0, int(round(math.expm1(v))))
RoundExpm1(v) ==
    IF v < LnHalfMilli(0) THEN 0
    ELSE CHOOSE k \in 0..11 : LnHalfMilli(k) <= v /\ v < LnHalfMilli(k + 1)

_denormalize_edge_demand(n) == RoundExpm1(((n * DemandLogStd) \div 1000) + DemandLogMean)

_normalize_edge_demand(raw) == ((Log1pMilli(raw) - DemandLogMean) * 1000) \div DemandLogStd

_denormalize_edge_occupancy(n) == RoundExpm1(((n * OccLogStd) \div 1000) + OccLogMean)

_normalize_edge_occupancy(raw) == ((Log1pMilli(raw) - OccLogMean) * 1000) \div OccLogStd

\* raw speed in thousandths of m/s times 1000
_denormalize_edge_speed(n) == n * (SpeedMax - 0) + 0

_normalize_edge_speed(raw) == (raw - 0) \div Max2(1, SpeedMax - 0)

(***************************************************************************)
(* The road network of the stored snapshots: two junctions, a grid edge     *)
(* named <from><to> and an express edge ("-E1", as in the routes of        *)
(* real_time_inference.py main()) that runs from A1 back to A0.            *)
(* UnknownEdge is the default current_edge_id of predict_eta, an id that   *)
(* no snapshot lists.                                                      *)
(***************************************************************************)
JunctionIds == << "A0", "A1" >>

EdgeIds == << "A0A1", "-E1" >>

UnknownEdge == "edge_123"

RequestEdgeIds == Range(EdgeIds) \cup {UnknownEdge}

\* endpoints (junction indices) of static edge e (0-based), as the snapshot's edge_index has them
StaticEndpoints(e) == << << 0, 1 >>, << 1, 0 >> >>[e + 1]

\* re.findall(r'[A-Z]+\d+', edge_id)
FindJunctionTokens(edge_id) ==
    CASE edge_id = "A0A1" -> << "A0", "A1" >>
      [] edge_id = "-E1" -> << "E1" >>
      [] OTHER -> << >>

NJ == Len(JunctionIds)

NE == Len(EdgeIds)

ZeroAttr == [speed |-> 0, demand |-> 0, occupancy |-> 0]

StoredSpeed == 500

(***************************************************************************)
(* Stored snapshots, as the snapshot generator writes them (layout in the  *)
(* comment of add_vehicle_to_last_snapshot): junction rows then vehicle    *)
(* rows; static edges then, per occupied road, the chain                   *)
(* origin -> v1 -> ... -> vk -> destination ordered by position.           *)
(* A node row keeps slots 0 (node_type), 23 and 24; an edge feature vector *)
(* keeps slots 0 (speed), 5 (demand) and 6 (occupancy).                    *)
(***************************************************************************)
VehName(i) == << "veh_1", "veh_2", "veh_3", "veh_4" >>[i]

\* vehicles (1-based) on edge e, in the order of the sequence ord
RECURSIVE ChainOf(_, _, _)
ChainOf(ord, ce, e) ==
    IF ord = << >> THEN << >>
    ELSE IF ce[Head(ord)] = e THEN << Head(ord) >> \o ChainOf(Tail(ord), ce, e)
         ELSE ChainOf(Tail(ord), ce, e)

\* dynamic edges of one chain: <<src, dst, type>>
ChainEdges(chain, e) ==
    IF chain = << >> THEN << >>
    ELSE << << StaticEndpoints(e)[1], NJ + chain[1] - 1, 1 >> >>
         \o [i \in 1..(Len(chain) - 1) |-> << NJ + chain[i] - 1, NJ + chain[i + 1] - 1, 3 >>]
         \o << << NJ + chain[Len(chain)] - 1, StaticEndpoints(e)[2], 2 >> >>

RECURSIVE AllChainEdges(_, _, _)
AllChainEdges(ord, ce, e) ==
    IF e >= NE THEN << >>
    ELSE ChainEdges(ChainOf(ord, ce, e), e) \o AllChainEdges(ord, ce, e + 1)

OccOf(ce, e) == Cardinality({i \in DOMAIN ce : ce[i] = e})

\* ord: the generator's order of the vehicles; ce, pos: current edge and position per vehicle;
\* every stored vehicle is on the last edge of its route
MakeSnapshot(step, ce, pos, ord) ==
    LET nv == Len(ce)
        attr(e) == [speed |-> StoredSpeed,
                    demand |-> _normalize_edge_demand(OccOf(ce, e)),
                    occupancy |-> _normalize_edge_occupancy(OccOf(ce, e))]
        dyn == AllChainEdges(ord, ce, 0)
    IN [step |-> step,
        x |-> [j \in 1..NJ |-> [node_type |-> 0, f23 |-> 0, f24 |-> 0]]
              \o [i \in 1..nv |-> [node_type |-> 1, f23 |-> attr(ce[i]).demand, f24 |-> attr(ce[i]).occupancy]],
        edge_index |-> [e \in 1..NE |-> StaticEndpoints(e - 1)] \o [k \in 1..Len(dyn) |-> << dyn[k][1], dyn[k][2] >>],
        edge_type |-> [e \in 1..NE |-> 0] \o [k \in 1..Len(dyn) |-> dyn[k][3]],
        edge_attr |-> [e \in 1..NE |-> attr(e - 1)] \o [k \in 1..Len(dyn) |-> ZeroAttr],
        vehicle_ids |-> [i \in 1..nv |-> VehName(i)],
        junction_ids |-> JunctionIds,
        edge_ids |-> EdgeIds,
        vehicle_route_left |-> ce,
        vehicle_route_left_splits |-> [i \in 1..nv |-> 1],
        current_vehicle_current_edges |-> ce,
        current_vehicle_position_on_edges |-> pos]

\* orders in which the generator may chain the vehicles: by position, ties in either order
ChainOrders(ce, pos) ==
    {ord \in [1..Len(ce) -> 1..Len(ce)] :
        /\ \A a, b \in 1..Len(ce) : a # b => ord[a] # ord[b]
        /\ \A a, b \in 1..Len(ce) :
              (a < b /\ ce[ord[a]] = ce[ord[b]]) => pos[ord[a]] <= pos[ord[b]]}

\* as many distinct positions as vehicles, so that every order and every tie occurs
StoredSnapshots(step) ==
    UNION {UNION {{MakeSnapshot(step, ce, pos, ord) : ord \in ChainOrders(ce, pos)} :
                  ce \in [1..n -> 0..(NE - 1)], pos \in [1..n -> 0..(MaxVeh - 1)]} :
           n \in 0..MaxVeh}

(***************************************************************************)
(* Graph state mutator: RealTimeInference.add_vehicle_to_last_snapshot.    *)
(* A request is [veh_id, current_edge_id, route_edges]; the other request  *)
(* fields only feed the synthesized feature row.                           *)
(***************************************************************************)
\* _get_current_edge_features: (demand, occupancy, speed) of the current edge, zeros when unknown
_get_current_edge_features(snap, current_edge_id) ==
    IF current_edge_id \in Range(snap.edge_ids)
    THEN LET a == snap.edge_attr[IndexOf(snap.edge_ids, current_edge_id) + 1]
         IN << a.demand, a.occupancy, a.speed >>
    ELSE << 0, 0, 0 >>

\* the capture taken after the current-edge update instead of before it
OriginalEdgeDemandsAfterUpdate(snap, route_edges, current_edge_id, current_edge_demand) ==
    [edge_id \in {r \in Range(route_edges) : r \in Range(snap.edge_ids)} |->
        IF edge_id = current_edge_id
        THEN current_edge_demand
        ELSE snap.edge_attr[IndexOf(snap.edge_ids, edge_id) + 1].demand]

\* lines 285-291 and 302-306: normalized demand per route edge before any update
OriginalEdgeDemands(snap, route_edges, current_edge_id, current_edge_demand) ==
    [edge_id \in {r \in Range(route_edges) : r \in Range(snap.edge_ids)} |->
        IF edge_id = current_edge_id
        THEN _normalize_edge_demand(_denormalize_edge_demand(current_edge_demand) - 1)
        ELSE snap.edge_attr[IndexOf(snap.edge_ids, edge_id) + 1].demand]

\* lines 339-344: write slot 23 of the rows addressed by the vehicles whose current edge is
\* edge_idx; bound tells whether new_edge_demand_normalized has been assigned yet
RECURSIVE UpdateVehicleDemand(_, _, _, _, _, _)
UpdateVehicleDemand(x, cur_edges, edge_idx, bound, new_dn, vehicle_idx) ==
    IF vehicle_idx >= Len(cur_edges) THEN [x |-> x, error |-> "none"]
    ELSE IF cur_edges[vehicle_idx + 1] = edge_idx /\ Len(x) > vehicle_idx
         THEN IF ~bound
              THEN [x |-> x, error |-> "NameError"]
              ELSE UpdateVehicleDemand([x EXCEPT ![vehicle_idx + 1].f23 = new_dn],
                                       cur_edges, edge_idx, bound, new_dn, vehicle_idx + 1)
         ELSE UpdateVehicleDemand(x, cur_edges, edge_idx, bound, new_dn, vehicle_idx + 1)

\* lines 312-346: the loop over route_edges; st carries edge_attr, x and the loop's
\* variables edge_idx and new_edge_demand_normalized, which outlive an iteration
RECURSIVE RouteLoop(_, _, _, _, _)
RouteLoop(st, snap, route_edges, original_edge_demands, i) ==
    IF i > Len(route_edges) \/ st.error # "none" THEN st
    ELSE LET edge_id == route_edges[i]
             found == edge_id \in Range(snap.edge_ids)
             edge_idx == IF found THEN IndexOf(snap.edge_ids, edge_id) ELSE st.edge_idx
             new_dn == IF found
                       THEN _normalize_edge_demand(
                                _denormalize_edge_demand(original_edge_demands[edge_id]) + 1)
                       ELSE st.new_dn
             bound == found \/ st.bound
             attr == IF found THEN [st.edge_attr EXCEPT ![edge_idx + 1].demand = new_dn]
                     ELSE st.edge_attr
             upd == UpdateVehicleDemand(st.x, snap.current_vehicle_current_edges,
                                        edge_idx, bound, new_dn, 0)
         IN RouteLoop([edge_attr |-> attr, x |-> upd.x, edge_idx |-> edge_idx,
                       bound |-> bound, new_dn |-> new_dn, error |-> upd.error],
                      snap, route_edges, original_edge_demands, i + 1)

\* key-stable sort of vehicle indices by position: the first element of sorted(..., key=position)
FirstByPosition(vehicles, pos) ==
    CHOOSE v \in vehicles :
        \A w \in vehicles : pos[v + 1] < pos[w + 1] \/ (pos[v + 1] = pos[w + 1] /\ v <= w)

\* _construct_dynamic_edges: returns the snapshot (with the old head edge removed, lines
\* 901-908) and the dynamic edges to append as <<src, dst, type>>
_construct_dynamic_edges(snap, new_vehicle_idx) ==
    LET cur_edges == snap.current_vehicle_current_edges
        new_vehicle_edge_idx == cur_edges[new_vehicle_idx + 1]
        none == [snap |-> snap, dynamic |-> << >>]
    IN IF new_vehicle_edge_idx >= Len(snap.edge_ids) THEN none
       ELSE
       LET matches == FindJunctionTokens(snap.edge_ids[new_vehicle_edge_idx + 1])
       IN IF Len(matches) = 0 THEN none
          ELSE
          LET from_junction == matches[1]
              to_junction == IF Len(matches) >= 2 THEN matches[2] ELSE matches[1]
          IN IF from_junction \notin Range(snap.junction_ids) \/ to_junction \notin Range(snap.junction_ids)
             THEN none
             ELSE
             LET from_junction_idx == IndexOf(snap.junction_ids, from_junction)
                 to_junction_idx == IndexOf(snap.junction_ids, to_junction)
                 new_vehicle_global_idx == Len(snap.junction_ids) + new_vehicle_idx
                 existing_vehicles_on_edge ==
                     {i \in 0..(Len(cur_edges) - 1) :
                         i # new_vehicle_idx /\ cur_edges[i + 1] = new_vehicle_edge_idx}
             IN IF existing_vehicles_on_edge = {}
                THEN [snap |-> snap,
                      dynamic |-> << << from_junction_idx, new_vehicle_global_idx, 1 >>,
                                     << new_vehicle_global_idx, to_junction_idx, 2 >> >>]
                ELSE
                LET first_vehicle_idx == FirstByPosition(existing_vehicles_on_edge,
                                                         snap.current_vehicle_position_on_edges)
                    first_vehicle_global_idx == Len(snap.junction_ids) + first_vehicle_idx
                    keep_mask == [i \in 1..Len(snap.edge_type) |->
                                     ~(/\ snap.edge_index[i][1] = from_junction_idx
                                       /\ snap.edge_index[i][2] = first_vehicle_global_idx
                                       /\ snap.edge_type[i] = 1)]
                IN [snap |-> [snap EXCEPT !.edge_index = SelectMask(snap.edge_index, keep_mask),
                                          !.edge_type = SelectMask(snap.edge_type, keep_mask),
                                          !.edge_attr = SelectMask(snap.edge_attr, keep_mask)],
                    dynamic |-> << << from_junction_idx, new_vehicle_global_idx, 1 >>,
                                   << new_vehicle_global_idx, first_vehicle_global_idx, 3 >> >>]

\* index written for a route edge: edge_ids.index(edge) if present else 0 (lines 359-364, 387)
EdgeIndexOrZero(snap, edge) ==
    IF edge \in Range(snap.edge_ids) THEN IndexOf(snap.edge_ids, edge) ELSE 0

\* the per-vehicle arrays appended without the route split
AppendVehicleArraysNoSplit(snap, veh_id, route_edges) ==
    [snap EXCEPT
        !.vehicle_ids = Append(@, veh_id),
        !.current_vehicle_current_edges =
            Append(@, IF route_edges # << >> THEN EdgeIndexOrZero(snap, route_edges[1]) ELSE 0),
        !.current_vehicle_position_on_edges = Append(@, 0),
        !.vehicle_route_left = @ \o [k \in 1..Len(route_edges) |-> EdgeIndexOrZero(snap, route_edges[k])]]

\* lines 351-400: append the new vehicle to the per-vehicle arrays
AppendVehicleArrays(snap, veh_id, route_edges) ==
    [snap EXCEPT
        !.vehicle_ids = Append(@, veh_id),
        !.current_vehicle_current_edges =
            Append(@, IF route_edges # << >> THEN EdgeIndexOrZero(snap, route_edges[1]) ELSE 0),
        !.current_vehicle_position_on_edges = Append(@, 0),
        !.vehicle_route_left = @ \o [k \in 1..Len(route_edges) |-> EdgeIndexOrZero(snap, route_edges[k])],
        !.vehicle_route_left_splits = Append(@, Len(route_edges))]

\* the constructed dynamic edges replace the dynamic edges of the snapshot instead of being
\* appended to them
AppendDynamicEdgesOverride(snap, new_vehicle_idx) ==
    LET r == _construct_dynamic_edges(snap, new_vehicle_idx)
        static == [i \in 1..Len(r.snap.edge_type) |-> r.snap.edge_type[i] = 0]
    IN [r.snap EXCEPT
          !.edge_index = SelectMask(@, static)
                         \o [k \in 1..Len(r.dynamic) |-> << r.dynamic[k][1], r.dynamic[k][2] >>],
          !.edge_type = SelectMask(@, static) \o [k \in 1..Len(r.dynamic) |-> r.dynamic[k][3]],
          !.edge_attr = SelectMask(@, static) \o [k \in 1..Len(r.dynamic) |-> ZeroAttr]]

\* lines 403-455: reconcile the dynamic edges and append the constructed ones
AppendDynamicEdges(snap, new_vehicle_idx) ==
    LET r == _construct_dynamic_edges(snap, new_vehicle_idx)
    IN [r.snap EXCEPT
          !.edge_index = @ \o [k \in 1..Len(r.dynamic) |-> << r.dynamic[k][1], r.dynamic[k][2] >>],
          !.edge_type = @ \o [k \in 1..Len(r.dynamic) |-> r.dynamic[k][3]],
          !.edge_attr = @ \o [k \in 1..Len(r.dynamic) |-> ZeroAttr]]

\* _encode_zone: one-hot over the zones A, B, C, H
_encode_zone(zone) ==
    LET zone_mapping == << "A", "B", "C", "H" >>
    IN [k \in 1..4 |-> IF zone_mapping[k] = zone THEN 1 ELSE 0]

\* an encoder that puts a lane count outside 1..3 on the nearest slot
EncodeNumLanesClamped(num_lanes) ==
    [k \in 1..3 |-> IF k = (IF num_lanes < 1 THEN 1 ELSE IF num_lanes > 3 THEN 3 ELSE num_lanes)
                    THEN 1 ELSE 0]

\* _encode_num_lanes: one-hot over 1, 2, 3 lanes
_encode_num_lanes(num_lanes) ==
    [k \in 1..3 |-> IF 1 <= num_lanes /\ num_lanes <= 3 /\ k = num_lanes THEN 1 ELSE 0]

\* lines 525-577: the feature vector of the new vehicle; f holds the temporal features and
\* the normalised route length and coordinates the caller's values give
feature_vector(zone, current_edge_num_lanes, f, current_edge_demand, current_edge_occupancy) ==
    << 1 >> \o << 0, 1, 0 >> \o << 0, 0 >>
    \o << f.sin_hour, f.cos_hour, f.sin_day, f.cos_day >>
    \o << f.route_length_norm, 0 >>
    \o _encode_zone(zone)
    \o << f.current_x_norm, f.current_y_norm >>
    \o << f.dest_x_norm, f.dest_y_norm >>
    \o _encode_num_lanes(current_edge_num_lanes)
    \o << current_edge_demand, current_edge_occupancy >>
    \o << 0, 0 >>
    \o << 0 >>

\* add_vehicle_to_last_snapshot: the object it was given after the call, and the error it
\* raised ("none" when it returned)
add_vehicle_to_last_snapshot(current_pt_file, req) ==
    LET feats == _get_current_edge_features(current_pt_file, req.current_edge_id)
        current_edge_demand == _normalize_edge_demand(_denormalize_edge_demand(feats[1]) + 1)
        current_edge_occupancy == _normalize_edge_occupancy(_denormalize_edge_occupancy(feats[2]) + 1)
        current_edge_speed == _normalize_edge_speed(_denormalize_edge_speed(feats[3]))
    IN IF req.current_edge_id \notin Range(current_pt_file.edge_ids)
       THEN [snap |-> current_pt_file, error |-> "ValueError"]     \* edge_ids.index, line 295
       ELSE
       LET edge_idx == IndexOf(current_pt_file.edge_ids, req.current_edge_id)
           original_edge_demands == OriginalEdgeDemands(current_pt_file, req.route_edges,
                                                        req.current_edge_id, current_edge_demand)
           edge_attr == [current_pt_file.edge_attr EXCEPT
                            ![edge_idx + 1] = [speed |-> current_edge_speed,
                                               demand |-> current_edge_demand,
                                               occupancy |-> current_edge_occupancy]]
           loop == RouteLoop([edge_attr |-> edge_attr, x |-> current_pt_file.x, edge_idx |-> edge_idx,
                              bound |-> FALSE, new_dn |-> 0, error |-> "none"],
                             current_pt_file, req.route_edges, original_edge_demands, 1)
           updated == [current_pt_file EXCEPT !.edge_attr = loop.edge_attr, !.x = loop.x]
       IN IF loop.error # "none"
          THEN [snap |-> updated, error |-> loop.error]
          ELSE
          LET new_vehicle_idx == Len(current_pt_file.vehicle_ids)
              arrays == AppendVehicleArrays(updated, req.veh_id, req.route_edges)
              edges == AppendDynamicEdges(arrays, new_vehicle_idx)
          IN [snap |-> [edges EXCEPT !.x = Append(@, [node_type |-> 1,
                                                       f23 |-> current_edge_demand,
                                                       f24 |-> current_edge_occupancy])],
              error |-> "none"]

(***************************************************************************)
(* Snapshot window loader: RealTimeInference._load_temporal_window.        *)
(* A snapshot file step_<n>.pt is identified by its step number n.         *)
(***************************************************************************)
\* sorted(glob(...), key=extract_step_number)
SortedPtFiles(files) == SortedSeq(files)

\* the closest-file search with "<=": the last of several equally close files wins
RECURSIVE FindClosestFileLastOnTie(_, _, _, _, _, _)
FindClosestFileLastOnTie(step_numbers, current_step, i, has_min, min_diff, current_file_idx) ==
    IF i >= Len(step_numbers) THEN current_file_idx
    ELSE LET diff == Abs(step_numbers[i + 1] - current_step)
         IN IF ~has_min \/ diff <= min_diff
            THEN FindClosestFileLastOnTie(step_numbers, current_step, i + 1, TRUE, diff, i)
            ELSE FindClosestFileLastOnTie(step_numbers, current_step, i + 1, has_min, min_diff,
                                          current_file_idx)

\* lines 608-615: index of the file closest to current_step; has_min is FALSE while
\* min_diff is still float('inf')
RECURSIVE FindClosestFile(_, _, _, _, _, _)
FindClosestFile(step_numbers, current_step, i, has_min, min_diff, current_file_idx) ==
    IF i >= Len(step_numbers) THEN current_file_idx
    ELSE LET diff == Abs(step_numbers[i + 1] - current_step)
         IN IF ~has_min \/ diff < min_diff
            THEN FindClosestFile(step_numbers, current_step, i + 1, TRUE, diff, i)
            ELSE FindClosestFile(step_numbers, current_step, i + 1, has_min, min_diff, current_file_idx)

\* window indices without the wrapping: an index before the first file is dropped
RECURSIVE WindowIndicesNoWrap(_, _, _, _)
WindowIndicesNoWrap(current_file_idx, w, total_files, i) ==
    IF i >= w THEN << >>
    ELSE (IF current_file_idx - (w - 1 - i) < 0 THEN << >>
          ELSE << current_file_idx - (w - 1 - i) >>)
         \o WindowIndicesNoWrap(current_file_idx, w, total_files, i + 1)

\* lines 619-622: window indices with cyclic wrapping
RECURSIVE WindowIndices(_, _, _, _)
WindowIndices(current_file_idx, w, total_files, i) ==
    IF i >= w THEN << >>
    ELSE << (current_file_idx - (w - 1 - i)) % total_files >>
         \o WindowIndices(current_file_idx, w, total_files, i + 1)

(***************************************************************************)
(* Training-style window dataset: TemporalGraphDataset.__init__, as        *)
(* Inference.get_baseline_predictions constructs it.                       *)
(***************************************************************************)
\* files[start:start+count] of a Python list
Slice(s, start, count) ==
    LET lo == IF start < Len(s) THEN start ELSE Len(s)
        hi == IF start + count < Len(s) THEN start + count ELSE Len(s)
    IN [k \in 1..(hi - lo) |-> s[lo + k]]

\* lines 108-111: the (start, end_exclusive) pairs of the full windows
RECURSIVE FullWindows(_, _, _, _)
FullWindows(n, w, stride, i) ==
    IF i > n - w THEN << >>
    ELSE << << i, i + w >> >> \o FullWindows(n, w, stride, i + stride)

TemporalGraphDataset(all_files, w, stride, num_files, start_idx) ==
    LET start == Max2(0, start_idx)
        files == Slice(SortedPtFiles(all_files), start, Max2(0, num_files))
    IN IF Len(files) = 0 THEN [error |-> "FileNotFoundError", files |-> << >>, windows |-> << >>]
       ELSE IF Len(files) - w < 0 THEN [error |-> "ValueError", files |-> files, windows |-> << >>]
       ELSE [error |-> "none", files |-> files, windows |-> FullWindows(Len(files), w, stride, 0)]

\* get_baseline_predictions, lines 73-74
PlaybackNumFiles == 30

PlaybackStartIdx(step) == (step \div 30) - 29

(***************************************************************************)
(* State.                                                                  *)
(***************************************************************************)
VARIABLES
    data_files,        \* step numbers of the step_*.pt files in the data directory
    disk,              \* content of each snapshot file
    window_size,       \* config data.window_size
    stride_size,       \* config data.stride_size
    pc,                \* position of the inference call
    entry,             \* the predictor the process serves with: "rt" = RealTimeInference,
                       \* "inf" = Inference
    current_time,      \* target time of the call
    request,           \* the vehicle insertion request, once the mutator has taken it
    playback_ds,       \* the TemporalGraphDataset of the baseline pass
    pt_files,          \* sorted file list of _load_temporal_window
    current_file_idx,  \* index of the closest file
    window_indices,    \* indices of the window's files
    temporal_window,   \* the loaded snapshot objects; slot k is one object
    given_pt_file,     \* value of the object handed to the mutator, at the time of the call
    updated_ref,       \* slot of the object the last insertion returned (0 = none)
    error,             \* exception that ended the call, "none" otherwise
    yhat_rows,         \* node rows (0-based) the predictions belong to, in prediction order
    rng_state,         \* draws taken from the global generators since they were last seeded
    temporal_proj,     \* TemporalAggregator.input_proj / output_proj: << >> while the
                       \* attributes do not exist, else << generator state they were drawn at >>
    seed_set,          \* the current call has seeded the generators
    yhat_proj,         \* projection weights the updated forward pass computed with
    yhat_original,     \* baseline pass: [files, rows, proj], NoBaseline before it has run
    fn_name,           \* pure functions: the function applied last ("" = none yet)
    fn_in,             \* pure functions: its argument
    fn_out,            \* pure functions: its result
    traci_lock,        \* SUMOSimulation.traci_lock: the thread that holds it, NoThread if free
    threads            \* per service thread: its operation, the next TraCI call of the
                       \* operation and where the thread is

callvars == << data_files, disk, window_size, stride_size, pc, entry, current_time, request,
               playback_ds, pt_files, current_file_idx, window_indices, temporal_window,
               given_pt_file, updated_ref, error, yhat_rows, rng_state, temporal_proj,
               seed_set, yhat_proj, yhat_original >>

fnvars == << fn_name, fn_in, fn_out >>

thvars == << traci_lock, threads >>

vars == << callvars, fnvars, thvars >>

NoRequest == [veh_id |-> "", current_edge_id |-> "", route_edges |-> << >>]

NoDataset == [error |-> "none", files |-> << >>, windows |-> << >>]

NoSnapshot == MakeSnapshot(0, << >>, << >>, << >>)

StepOfFile(k) == 2 * k - 1

Routes == UNION {[1..n -> RequestEdgeIds] : n \in 0..MaxRoute}

Requests == {[veh_id |-> "new_vehicle", current_edge_id |-> c, route_edges |-> r] :
                c \in RequestEdgeIds, r \in Routes}

\* target times: from just before the first snapshot to just beyond the last
Times == IF data_files = {} THEN {0}
         ELSE LET lo == CHOOSE a \in data_files : \A b \in data_files : a <= b
                  hi == CHOOSE a \in data_files : \A b \in data_files : a >= b
              IN (lo - 1)..(hi + 1)

NoBaseline == [files |-> << >>, rows |-> << >>, proj |-> << >>]

\* request-handling threads of the service; thread 0 is the background stepping loop
MaxRequests == 2

LoopThread == 0

Threads == 0..MaxRequests

NoThread == 0 - 1

\* a process that runs the predictor on its own, as main() does: no simulation service
\* has been constructed and no thread of it exists
NoService ==
    /\ traci_lock = NoThread
    /\ threads = << >>

\* the service after construction: the lock is free and no thread is in an operation
ThreadsInit ==
    /\ traci_lock = NoThread
    /\ threads = [t \in Threads |-> [op |-> "", i |-> 0, at |-> "out"]]

\* no pure function has been applied
FnIdle ==
    /\ fn_name = ""
    /\ fn_in = << >>
    /\ fn_out = << >>

\* the process after the construction of its predictor: RealTimeInference.__init__ ends with
\* set_seed; Inference.__init__ seeds and then constructs the model, which draws its
\* initial weights
CallLocalsInit ==
    /\ pc = "idle"
    /\ entry \in {"rt", "inf"}
    /\ rng_state = IF entry = "rt" THEN << >> ELSE << "model" >>
    /\ temporal_proj = << >>
    /\ seed_set = FALSE
    /\ yhat_proj = << >>
    /\ yhat_original = NoBaseline
    /\ current_time = 0
    /\ request = NoRequest
    /\ playback_ds = NoDataset
    /\ pt_files = << >>
    /\ current_file_idx = 0
    /\ window_indices = << >>
    /\ temporal_window = << >>
    /\ given_pt_file = NoSnapshot
    /\ updated_ref = 0
    /\ error = "none"
    /\ yhat_rows = << >>

\* one stored snapshot of every shape, in a one-file dataset
Init ==
    /\ data_files = {StepOfFile(1)}
    /\ disk \in [data_files -> StoredSnapshots(StepOfFile(1))]
    /\ window_size = 1
    /\ stride_size = 1
    /\ CallLocalsInit
    /\ FnIdle
    /\ NoService

\* every dataset size and window size, each file holding one vehicle on the first road
InitWindow ==
    /\ data_files \in SUBSET {StepOfFile(k) : k \in 1..MaxFiles}
    /\ disk = [f \in data_files |-> MakeSnapshot(f, << 0 >>, << 0 >>, << 1 >>)]
    /\ window_size \in 1..MaxW
    /\ stride_size = 1
    /\ CallLocalsInit
    /\ FnIdle
    /\ NoService

(***************************************************************************)
(* Operations of one inference call.                                       *)
(***************************************************************************)
\* a load that hands out the object already in memory for a file instead of reading it
torch_load_cached(file) ==
    IF \E k \in 1..Len(temporal_window) : temporal_window[k].step = file
    THEN temporal_window[CHOOSE k \in 1..Len(temporal_window) : temporal_window[k].step = file]
    ELSE disk[file]

\* torch.load(pt_files[idx]): a fresh object with the content of the file
torch_load(file) == disk[file]

\* set_seed / set_deterministic_seed / the seeding of RealTimeInference.__init__: the
\* generators restart from the configured seed
set_seed == << >>

\* an aggregator that draws new projections on every forward pass
TemporalAggregatorRedraw(proj, rng, n_seq) ==
    IF n_seq = 0
    THEN [proj |-> proj, rng |-> rng, used |-> << >>]
    ELSE [proj |-> << rng >>, rng |-> rng \o << "input_proj", "output_proj" >>,
          used |-> << rng >>]

\* TemporalAggregator as the model forward pass uses it on the static edge features of the
\* n_seq frames before the last: not called without such frames; otherwise input_proj and
\* output_proj are drawn from the generator when the attributes do not exist yet, and
\* kept. [proj, rng] afterwards and the projection the pass computed with
TemporalAggregator_forward(proj, rng, n_seq) ==
    IF n_seq = 0
    THEN [proj |-> proj, rng |-> rng, used |-> << >>]
    ELSE IF proj = << >>
         THEN [proj |-> << rng >>, rng |-> rng \o << "input_proj", "output_proj" >>,
               used |-> << rng >>]
         ELSE [proj |-> proj, rng |-> rng, used |-> proj]

\* veh_mask of the forward pass: the node rows (0-based) of the vehicles of frame bt
VehMaskRows(bt) ==
    SelectMask([i \in 1..Len(bt.x) |-> i - 1], [i \in 1..Len(bt.x) |-> bt.x[i].node_type = 1])

\* predict_eta is entered; RealTimeInference.predict_eta starts with set_seed,
\* Inference.predict_eta with the baseline pass
Call ==
    /\ pc = "idle"
    /\ \E t \in Times : current_time' = t
    /\ pc' = IF entry = "inf" THEN "baseline" ELSE "load"
    /\ rng_state' = IF entry = "rt" THEN set_seed ELSE rng_state
    /\ seed_set' = (entry = "rt")
    /\ UNCHANGED << data_files, disk, window_size, stride_size, entry, request, playback_ds,
                    pt_files, current_file_idx, window_indices, temporal_window, given_pt_file,
                    updated_ref, error, yhat_rows, temporal_proj, yhat_proj, yhat_original >>
    /\ UNCHANGED << fnvars, thvars >>

\* Inference.get_baseline_predictions: build the playback dataset, load its first window
\* and run the model on it
Baseline ==
    /\ pc = "baseline"
    /\ LET ds == TemporalGraphDataset(data_files, window_size, stride_size,
                                      PlaybackNumFiles, PlaybackStartIdx(current_time))
       IN /\ playback_ds' = ds
          /\ IF ds.error # "none"
             THEN /\ pc' = "raised"
                  /\ error' = ds.error
                  /\ UNCHANGED << temporal_window, rng_state, temporal_proj, yhat_original >>
             ELSE LET files == [k \in 1..(ds.windows[1][2] - ds.windows[1][1]) |->
                                   ds.files[ds.windows[1][1] + k]]
                      window == [k \in 1..Len(files) |-> torch_load(files[k])]
                      agg == TemporalAggregator_forward(temporal_proj, rng_state,
                                                        Len(window) - 1)
                  IN /\ pc' = "load"
                     /\ error' = "none"
                     /\ temporal_window' = window
                     /\ temporal_proj' = agg.proj
                     /\ rng_state' = agg.rng
                     /\ yhat_original' = [files |-> files,
                                          rows |-> VehMaskRows(window[Len(window)]),
                                          proj |-> agg.used]
    /\ UNCHANGED << data_files, disk, window_size, stride_size, entry, current_time, request,
                    pt_files, current_file_idx, window_indices, given_pt_file, updated_ref,
                    yhat_rows, seed_set, yhat_proj >>
    /\ UNCHANGED << fnvars, thvars >>

\* the loader without its check for an empty directory: the closest-file loop leaves index 0
\* and the modulo by the number of files raises
LoadTemporalWindowUnchecked(current_step) ==
    LET files == SortedPtFiles(data_files)
    IN IF files = << >>
       THEN [error |-> "ZeroDivisionError", pt_files |-> files, current_file_idx |-> 0,
             window_indices |-> << >>, temporal_window |-> << >>]
       ELSE LET idx == FindClosestFile(files, current_step, 0, FALSE, 0, 0)
                indices == WindowIndices(idx, window_size, Len(files), 0)
            IN [error |-> "none", pt_files |-> files, current_file_idx |-> idx,
                window_indices |-> indices,
                temporal_window |->
                    [k \in 1..Len(indices) |-> torch_load(files[indices[k] + 1])]]

\* RealTimeInference._load_temporal_window: the error it raises ("none" when it returns), its
\* locals and the window it loads
_load_temporal_window(current_step) ==
    LET files == SortedPtFiles(data_files)
    IN IF files = << >>
       THEN [error |-> "FileNotFoundError", pt_files |-> files, current_file_idx |-> 0,
             window_indices |-> << >>, temporal_window |-> << >>]
       ELSE LET idx == FindClosestFile(files, current_step, 0, FALSE, 0, 0)
                indices == WindowIndices(idx, window_size, Len(files), 0)
            IN [error |-> "none", pt_files |-> files, current_file_idx |-> idx,
                window_indices |-> indices,
                temporal_window |->
                    [k \in 1..Len(indices) |-> torch_load(files[indices[k] + 1])]]

\* the call of _load_temporal_window by predict_eta / add_vehicle_and_predict; the latter
\* constructs a RealTimeInference first, which seeds the generators, constructs a model of
\* its own and seeds again
LoadWindow ==
    /\ pc = "load"
    /\ rng_state' = IF entry = "inf" THEN set_seed ELSE rng_state
    /\ seed_set' = (seed_set \/ entry = "inf")
    /\ LET r == _load_temporal_window(current_time)
       IN /\ error' = r.error
          /\ IF r.error # "none"
             THEN /\ pc' = "raised"
                  /\ UNCHANGED << pt_files, current_file_idx, window_indices, temporal_window >>
             ELSE /\ pt_files' = r.pt_files
                  /\ current_file_idx' = r.current_file_idx
                  /\ window_indices' = r.window_indices
                  /\ temporal_window' = r.temporal_window
                  /\ pc' = "insert"
    /\ UNCHANGED << data_files, disk, window_size, stride_size, entry, current_time, request,
                    playback_ds, given_pt_file, updated_ref, yhat_rows, temporal_proj,
                    yhat_proj, yhat_original >>
    /\ UNCHANGED << fnvars, thvars >>

\* add_vehicle_to_last_snapshot on temporal_window[-1]; the object is edited in place and
\* returned
AddVehicle ==
    /\ pc = "insert"
    /\ \E req \in Requests :
          LET last == Len(temporal_window)
              r == add_vehicle_to_last_snapshot(temporal_window[last], req)
          IN /\ request' = req
             /\ given_pt_file' = temporal_window[last]
             /\ temporal_window' = [temporal_window EXCEPT ![last] = r.snap]
             /\ error' = r.error
             /\ IF r.error = "none"
                THEN pc' = "forward" /\ updated_ref' = last
                ELSE pc' = "raised" /\ updated_ref' = 0
    /\ UNCHANGED << data_files, disk, window_size, stride_size, entry, current_time, playback_ds,
                    pt_files, current_file_idx, window_indices, yhat_rows, rng_state,
                    temporal_proj, seed_set, yhat_proj, yhat_original >>
    /\ UNCHANGED << fnvars, thvars >>

\* model forward pass and inversion: one prediction per vehicle row of the last frame
Forward ==
    /\ pc = "forward"
    /\ LET agg == TemporalAggregator_forward(temporal_proj, rng_state,
                                             Len(temporal_window) - 1)
       IN /\ yhat_rows' = VehMaskRows(temporal_window[Len(temporal_window)])
          /\ yhat_proj' = agg.used
          /\ temporal_proj' = agg.proj
          /\ rng_state' = agg.rng
    /\ pc' = "done"
    /\ UNCHANGED << data_files, disk, window_size, stride_size, entry, current_time, request,
                    playback_ds, pt_files, current_file_idx, window_indices, temporal_window,
                    given_pt_file, updated_ref, error, seed_set, yhat_original >>
    /\ UNCHANGED << fnvars, thvars >>

\* the call returns its result or its exception to the caller; its locals are gone, the
\* snapshot objects it loaded, and the reference to the one it edited, stay in memory
\* until the next call replaces them; the generators and the model keep their state
Return ==
    /\ pc \in {"done", "raised"}
    /\ pc' = "idle"
    /\ seed_set' = FALSE
    /\ yhat_proj' = << >>
    /\ yhat_original' = NoBaseline
    /\ current_time' = 0
    /\ request' = NoRequest
    /\ playback_ds' = NoDataset
    /\ pt_files' = << >>
    /\ current_file_idx' = 0
    /\ window_indices' = << >>
    /\ given_pt_file' = NoSnapshot
    /\ error' = "none"
    /\ yhat_rows' = << >>
    /\ UNCHANGED << data_files, disk, window_size, stride_size, entry, temporal_window,
                    updated_ref, rng_state, temporal_proj >>
    /\ UNCHANGED << fnvars, thvars >>

Next == Call \/ Baseline \/ LoadWindow \/ AddVehicle \/ Forward \/ Return

Spec == Init /\ [][Next]_vars

SpecWindow == InitWindow /\ [][Next]_vars

(***************************************************************************)
(* Pure functions of the pipeline, applied to arguments drawn from bounded *)
(* sets. Quantities are integers; the results of expm1 are in thousandths. *)
(***************************************************************************)
\* round(expm1(u) * 1000) for whole u
Expm1Milli(u) ==
    << -1000, -999, -998, -993, -982, -950, -865, -632, 0, 1718, 6389, 19086, 53598, 147413,
       402429, 1095633, 2979958 >>[u + 9]

\* a clamp that lets every value through
clamp_min_off(v, lo) == v

\* Tensor.clamp_min
clamp_min(v, lo) == IF v < lo THEN lo ELSE v

\* std.clamp_min(1e-8) times y_like, at the model's resolution: a standard deviation that is
\* not positive is replaced by 1e-8, which takes the product to 0
TimesClampedStd(y_like, std) == IF std <= 0 THEN 0 ELSE y_like * std

TargetKeys == {"y", "y_minmax", "y_z", "y_log", "y_log_z"}

\* an inversion that treats an unknown target key as raw seconds
InvertToSecondsDefaultKey(a) ==
    [error |-> "none", returned |-> TRUE, value |-> clamp_min(a.y_like * 1000, 0)]

\* invert_to_seconds(y_like, bt_last, target_key, batch_veh) for one vehicle; a carries
\* y_like, target_key and the statistics of bt_last. The value is in thousandths of a second
invert_to_seconds(a) ==
    IF a.target_key = "y"
    THEN [error |-> "none", returned |-> TRUE, value |-> clamp_min(a.y_like * 1000, 0)]
    ELSE IF a.target_key = "y_minmax"
    THEN [error |-> "none", returned |-> TRUE,
          value |-> clamp_min(a.y_like * clamp_min(a.eta_p98, 1) * 1000, 0)]
    ELSE IF a.target_key = "y_z"
    THEN [error |-> "none", returned |-> TRUE,
          value |-> clamp_min((TimesClampedStd(a.y_like, a.eta_std) + a.eta_mean) * 1000, 0)]
    ELSE IF a.target_key = "y_log"
    THEN [error |-> "none", returned |-> TRUE, value |-> clamp_min(Expm1Milli(a.y_like), 0)]
    ELSE IF a.target_key = "y_log_z"
    THEN [error |-> "none", returned |-> TRUE,
          value |-> clamp_min(Expm1Milli(TimesClampedStd(a.y_like, a.eta_log_std)
                                         + a.eta_log_mean), 0)]
    ELSE [error |-> "ValueError", returned |-> FALSE, value |-> 0]

\* model outputs range over -MaxY..MaxY
MaxY == 2

\* values of the per-graph statistics
StatValues == {-1, 0, 1}

\* keys the configuration may name: the five encodings, a misspelt one and a missing one
ConfigKeys == TargetKeys \cup {"y_log_zz", ""}

InvertArgs ==
    [fn : {"invert_to_seconds"}, target_key : ConfigKeys, y_like : (0 - MaxY)..MaxY,
     eta_p98 : {0, 1, 2}, eta_mean : StatValues, eta_std : StatValues,
     eta_log_mean : StatValues, eta_log_std : StatValues]

\* edge counts (vehicles on a road, routes through a road) range over 0..MaxCount
MaxCount == 10

\* the values a stored snapshot holds: the normalised counts and normalised speeds
StoredValues(kind) ==
    IF kind = "demand" THEN {_normalize_edge_demand(k) : k \in 0..MaxCount}
    ELSE IF kind = "occupancy" THEN {_normalize_edge_occupancy(k) : k \in 0..MaxCount}
    ELSE {0, 250, StoredSpeed, 750, 1000}

RoundTripArgs ==
    UNION {[fn : {"round_trip"}, kind : {kind}, x : StoredValues(kind)] :
              kind \in {"demand", "occupancy", "speed"}}

\* the mutator's denormalisation of a stored value
denormalize(kind, x) ==
    IF kind = "demand" THEN _denormalize_edge_demand(x)
    ELSE IF kind = "occupancy" THEN _denormalize_edge_occupancy(x)
    ELSE _denormalize_edge_speed(x)

\* the mutator's normalisation of a raw value
normalize(kind, raw) ==
    IF kind = "demand" THEN _normalize_edge_demand(raw)
    ELSE IF kind = "occupancy" THEN _normalize_edge_occupancy(raw)
    ELSE _normalize_edge_speed(raw)

\* the head has 2..MaxExperts experts
MaxExperts == 3

\* router probabilities are whole multiples of one unit, 1..MaxProb units per expert
MaxProb == 3

RECURSIVE SumSeq(_)
SumSeq(s) == IF s = << >> THEN 0 ELSE s[1] + SumSeq(Tail(s))

\* one vehicle at the head: the router's probabilities (softmax output, positive), the
\* number of experts to select, and the output of every expert for the vehicle
MoEArgs ==
    UNION {[fn : {"MoEHead.forward"}, probs : [1..n -> 1..MaxProb], k : 1..(n - 1),
            expert_out : [1..n -> {-1, 0, 1}]] : n \in 2..MaxExperts}

\* torch.topk(probs, k).indices: the expert ids (0-based) of k largest entries, largest
\* first; which of several equal entries it takes, and in which order, is not fixed
topk(probs, k) ==
    {idx \in [1..k -> 0..(Len(probs) - 1)] :
        /\ \A i, j \in 1..k : i # j => idx[i] # idx[j]
        /\ \A i, j \in 1..k : i < j => probs[idx[i] + 1] >= probs[idx[j] + 1]
        /\ \A i \in 1..k : \A e \in 0..(Len(probs) - 1) :
              e \notin Range(idx) => probs[idx[i] + 1] >= probs[e + 1]}

\* a dense mixture: every expert's output weighted by its router probability
MoEHeadDense(a, topk_idx) ==
    [topk_idx |-> topk_idx,
     w |-> [num |-> [j \in 1..Len(topk_idx) |-> a.probs[topk_idx[j] + 1]],
            den |-> SumSeq(a.probs)],
     y_hat |-> [num |-> SumSeq([e \in 1..Len(a.probs) |-> a.expert_out[e] * a.probs[e]]),
                den |-> SumSeq(a.probs)]]

\* MoEHead.forward for one vehicle, given the indices topk_mask returned. The weights
\* w[j] = topk_probs[j] / denom and the output are kept as fractions num / den; the floor
\* 1e-8 of denom is below one unit of probability
MoEHead_forward(a, topk_idx) ==
    LET topk_probs == [j \in 1..Len(topk_idx) |-> a.probs[topk_idx[j] + 1]]
        denom == clamp_min(SumSeq(topk_probs), 1)
        outs == [j \in 1..a.k |-> a.expert_out[topk_idx[j] + 1]]
    IN [topk_idx |-> topk_idx,
        w |-> [num |-> topk_probs, den |-> denom],
        y_hat |-> [num |-> SumSeq([j \in 1..a.k |-> outs[j] * topk_probs[j]]), den |-> denom]]

AblationVariants ==
    {"base_graph", "dynamic_graph", "route_graph", "temporal_base", "temporal_dynamic",
     "temporal_route_aware"}

TemporalKinds == {"gru", "transformer", "none"}

\* variant names a configuration may hold: the six variants, two names that the masking code
\* still mentions, and a missing one
ConfigVariants == AblationVariants \cup {"no_route", "no_temporal_no_route", ""}

ModelInitArgs ==
    [fn : {"TemporalMoEETA.__init__"}, ablation_variant : ConfigVariants,
     temporal_kind : TemporalKinds]

NotBuilt ==
    [error |-> "ValueError", built |-> FALSE, route_awareness |-> "", use_temporal_context |-> FALSE,
     use_dynamic_edges |-> FALSE, temporal_kind |-> ""]

Built(route_awareness, temporal, dynamic, kind) ==
    [error |-> "none", built |-> TRUE, route_awareness |-> route_awareness,
     use_temporal_context |-> temporal, use_dynamic_edges |-> dynamic, temporal_kind |-> kind]

\* a constructor that builds the base model for a variant name it does not know
ModelInitDefaultVariant(a) ==
    IF a.ablation_variant = "temporal_route_aware"
    THEN Built("full", a.temporal_kind # "none", TRUE, a.temporal_kind)
    ELSE Built("none", FALSE, FALSE, "none")

\* TemporalMoEETA.__init__: the flags the variant resolves to and the kind the
\* TemporalAggregator is built with
TemporalMoEETA_init(a) ==
    IF a.ablation_variant = "base_graph" THEN Built("none", FALSE, FALSE, "none")
    ELSE IF a.ablation_variant = "dynamic_graph" THEN Built("none", FALSE, TRUE, "none")
    ELSE IF a.ablation_variant = "route_graph" THEN Built("full", FALSE, TRUE, "none")
    ELSE IF a.ablation_variant = "temporal_base"
    THEN Built("none", a.temporal_kind # "none", FALSE, a.temporal_kind)
    ELSE IF a.ablation_variant = "temporal_dynamic"
    THEN Built("none", a.temporal_kind # "none", TRUE, a.temporal_kind)
    ELSE IF a.ablation_variant = "temporal_route_aware"
    THEN Built("full", a.temporal_kind # "none", TRUE, a.temporal_kind)
    ELSE NotBuilt

\* number of node features and of edge features
NodeInDim == 28

EdgeDim == 7

\* s with the slots lo..hi-1 (0-based, as the slice lo:hi) set to zero
ZeroSlots(s, lo, hi) == [k \in 1..Len(s) |-> IF lo <= k - 1 /\ k - 1 < hi THEN 0 ELSE s[k]]

\* node rows (node type in slot 0) and edge rows reach the masking with every slot set, or
\* all zero
MaskArgs ==
    [fn : {"mask"}, ablation_variant : AblationVariants,
     x : {[k \in 1..NodeInDim |-> IF k = 1 THEN ty ELSE v] : ty, v \in {0, 1}},
     edge_attr : {[k \in 1..EdgeDim |-> v] : v \in {0, 1}}]

\* TemporalMoEETA._maybe_zero_route_features on one node row
_maybe_zero_route_features(variant, x) ==
    LET veh == x[1] = 1
    IN IF variant \in {"base_graph", "dynamic_graph", "temporal_base", "temporal_dynamic"}
       THEN IF Len(x) > 26 /\ veh THEN ZeroSlots(ZeroSlots(x, 10, 12), 20, 27) ELSE x
       ELSE IF variant \in {"route_graph", "temporal_route_aware"}
            THEN IF Len(x) > 26 /\ veh THEN ZeroSlots(x, 20, 27) ELSE x
            ELSE x

\* TemporalMoEETA._maybe_zero_edge_route_features on one edge row
_maybe_zero_edge_route_features(variant, edge_attr) ==
    IF variant \in {"base_graph", "dynamic_graph", "temporal_base", "temporal_dynamic"}
       /\ Len(edge_attr) > 6
    THEN ZeroSlots(edge_attr, 5, 7)
    ELSE edge_attr

\* most static edges in a stored frame of the context computation
MaxStaticEdges == 2

\* parameters of edge_to_context as a checkpoint may hold them: weight and bias of the
\* Linear layer, for a hidden size of two
ContextParams ==
    [weight : {<< 0, 0 >>, << 1, 0 >>}, bias : {<< 0, 0 >>, << 1, 0 >>, << 0, 1 >>, << 2, 2 >>}]

\* static_edge_features_temporal by shape: the number of static edges of each frame before
\* the last; agg is the value output_proj(agg) has in every slot when the shapes agree
ContextArgs ==
    [fn : {"temporal_context"},
     rows : UNION {[1..n -> 1..MaxStaticEdges] : n \in 1..(MaxW - 1)},
     kind : {"gru", "transformer"}, agg : {0, 1}, params : ContextParams]

\* TemporalAggregator._all_same_shape
_all_same_shape(ts) == ts = << >> \/ \A t \in 1..Len(ts) : ts[t] = ts[1]

\* TemporalAggregator.forward on a non-empty sequence, kind gru or transformer: the
\* (E_static, edge_dim) tensor it returns, and whether it printed the warning
TemporalAggregator_shapes(a) ==
    IF ~_all_same_shape(a.rows)
    THEN [raised |-> FALSE, warned |-> TRUE,
          out |-> [e \in 1..a.rows[1] |-> [k \in 1..EdgeDim |-> 0]]]
    ELSE [raised |-> FALSE, warned |-> FALSE,
          out |-> [e \in 1..a.rows[1] |-> [k \in 1..EdgeDim |-> a.agg]]]

\* edge_to_context on one edge row, in thousandths: Linear, GELU, LayerNorm (Dropout is off
\* in eval mode)
edge_to_context(row, params) ==
    LET lin == [j \in 1..2 |-> params.weight[j] * SumSeq(row) + params.bias[j]]
        \* nn.GELU on the integers the Linear layer yields here
        GELUMilli(y) ==
            IF y = 0 THEN 0 ELSE IF y = 1 THEN 841 ELSE IF y = 2 THEN 1955
            ELSE IF y = 3 THEN 2996 ELSE y * 1000
        \* nn.LayerNorm over two components, default weight and bias: equal components
        \* normalise to zero, different ones to plus and minus one
        LayerNormMilli(v) ==
            IF v[1] = v[2] THEN << 0, 0 >>
            ELSE IF v[1] > v[2] THEN << 1000, 0 - 1000 >> ELSE << 0 - 1000, 1000 >>
    IN LayerNormMilli([j \in 1..2 |-> GELUMilli(lin[j])])

\* the temporal-context branch of TemporalMoEETA.forward with temporal context on
temporal_context(a) ==
    LET t == TemporalAggregator_shapes(a)
        \* edge_context.mean(dim=0) in thousandths
        MeanRows(rows) ==
            [j \in 1..2 |-> SumSeq([e \in 1..Len(rows) |-> rows[e][j]]) \div Len(rows)]
    IN IF t.raised
       THEN [raised |-> TRUE, warned |-> t.warned, ctx_global |-> << >>]
       ELSE [raised |-> FALSE, warned |-> t.warned,
             ctx_global |->
                 MeanRows([e \in 1..Len(t.out) |-> edge_to_context(t.out[e], a.params)])]

\* most snapshot files and largest stride of a dataset built for windowing
MaxDatasetFiles == 4

MaxStride == 2

\* step numbers of n snapshot files, not evenly spaced
DatasetSteps(n) == {k * k : k \in 1..n}

\* the permutations of 1..n
Perms(n) == {q \in [1..n -> 1..n] : \A i, j \in 1..n : i # j => q[i] # q[j]}

\* number of windows of n files
NumWindows(n, w, stride) == Len(FullWindows(n, w, stride, 0))

\* arguments of the constructor with allow_incomplete_tail=False; perm is the order
\* random.Random(seed).shuffle gives a list of that many windows, for a seed that is not None
DatasetArgs ==
    {a \in [fn : {"TemporalGraphDataset"}, n : 0..MaxDatasetFiles, window_size : 1..MaxW,
           stride_size : 1..MaxStride, shuffle_windows : BOOLEAN, seed : {"None", "0", "1"},
           perm : UNION {Perms(m) : m \in 0..MaxDatasetFiles}] :
        LET nw == NumWindows(a.n, a.window_size, a.stride_size)
        IN /\ Len(a.perm) = nw
           /\ (~a.shuffle_windows \/ a.seed = "None" \/ nw <= 1) => a.perm = [k \in 1..nw |-> k]
           /\ ~a.shuffle_windows => a.seed = "None"}

\* orders the windows may be left in: any when rng.shuffle runs without a seed, else the
\* one the seed fixes, or the order of construction
ShuffleOrders(a) ==
    LET nw == NumWindows(a.n, a.window_size, a.stride_size)
    IN IF a.shuffle_windows /\ nw > 1 /\ a.seed = "None" THEN Perms(nw) ELSE {a.perm}

\* an item whose files are handed out latest first
GetItemReversed(files, window) ==
    [k \in 1..(window[2] - window[1]) |-> files[window[2] + 1 - k]]

\* TemporalGraphDataset.__getitem__: the steps of self.files[start:end]
__getitem__(files, window) ==
    [k \in 1..(window[2] - window[1]) |-> files[window[1] + k]]

\* the constructor with num_files=None, start_idx=0, and every item of the dataset; order is
\* the order the shuffle left
TemporalGraphDataset_items(a, order) ==
    LET ds == TemporalGraphDataset(DatasetSteps(a.n), a.window_size, a.stride_size, a.n, 0)
    IN IF ds.error # "none"
       THEN [error |-> ds.error, windows |-> << >>, items |-> << >>]
       ELSE LET ws == [k \in 1..Len(ds.windows) |-> ds.windows[order[k]]]
            IN [error |-> "none", windows |-> ws,
                items |-> [k \in 1..Len(ws) |-> __getitem__(ds.files, ws[k])]]

\* the insertion as a function of the snapshot it is given and of the request: every stored
\* snapshot with every request, and an empty snapshot with every zone (and a name that is no
\* zone) and every lane count from 0 to 4; f holds the slots computed from the time and the
\* coordinates, in thousandths
InsertArgs ==
    LET f == [sin_hour |-> 500, cos_hour |-> 866, sin_day |-> 782, cos_day |-> 623,
              route_length_norm |-> 250, current_x_norm |-> 100,
              current_y_norm |-> 900, dest_x_norm |-> 700, dest_y_norm |-> 300]
        stored == StoredSnapshots(StepOfFile(1))
    IN [fn : {"add_vehicle_to_last_snapshot"}, current_pt_file : stored, req : Requests,
        zone : {"A"}, num_lanes : {1}, f : {f}]
       \cup [fn : {"add_vehicle_to_last_snapshot"},
             current_pt_file : {snap \in stored : snap.vehicle_ids = << >>},
             req : {[veh_id |-> "new_vehicle", current_edge_id |-> EdgeIds[1],
                     route_edges |-> << EdgeIds[1] >>]},
             zone : {"A", "B", "C", "H", "Z"}, num_lanes : 0..4, f : {f}]

FnArgs ==
    InvertArgs \cup RoundTripArgs \cup MoEArgs \cup ModelInitArgs \cup MaskArgs \cup ContextArgs
    \cup DatasetArgs \cup InsertArgs

\* no inference call is running; one argument is given
InitFn ==
    /\ data_files = {}
    /\ disk = [f \in data_files |-> NoSnapshot]
    /\ window_size = 1
    /\ stride_size = 1
    /\ CallLocalsInit
    /\ entry = "rt"
    /\ fn_name = ""
    /\ fn_in \in FnArgs
    /\ fn_out = << >>
    /\ NoService

InvertToSeconds ==
    /\ fn_name = ""
    /\ fn_in.fn = "invert_to_seconds"
    /\ fn_name' = "invert_to_seconds"
    /\ fn_out' = invert_to_seconds(fn_in)
    /\ UNCHANGED << callvars, fn_in, thvars >>

\* a stored value is denormalised and the raw value normalised again
RoundTrip ==
    /\ fn_name = ""
    /\ fn_in.fn = "round_trip"
    /\ fn_name' = "round_trip"
    /\ fn_out' = [raw |-> denormalize(fn_in.kind, fn_in.x),
                  back |-> normalize(fn_in.kind, denormalize(fn_in.kind, fn_in.x))]
    /\ UNCHANGED << callvars, fn_in, thvars >>

\* the head's forward pass on one vehicle
MoEForward ==
    /\ fn_name = ""
    /\ fn_in.fn = "MoEHead.forward"
    /\ fn_name' = "MoEHead.forward"
    /\ \E topk_idx \in topk(fn_in.probs, fn_in.k) :
          fn_out' = MoEHead_forward(fn_in, topk_idx)
    /\ UNCHANGED << callvars, fn_in, thvars >>

\* a model is constructed from the configuration
ModelInit ==
    /\ fn_name = ""
    /\ fn_in.fn = "TemporalMoEETA.__init__"
    /\ fn_name' = "TemporalMoEETA.__init__"
    /\ fn_out' = TemporalMoEETA_init(fn_in)
    /\ UNCHANGED << callvars, fn_in, thvars >>

\* the forward pass masks a node row and an edge row before encoding them
Mask ==
    /\ fn_name = ""
    /\ fn_in.fn = "mask"
    /\ fn_name' = "mask"
    /\ fn_out' = [x |-> _maybe_zero_route_features(fn_in.ablation_variant, fn_in.x),
                  edge_attr |-> _maybe_zero_edge_route_features(fn_in.ablation_variant,
                                                                fn_in.edge_attr)]
    /\ UNCHANGED << callvars, fn_in, thvars >>

\* the forward pass computes the temporal context of a window
TemporalContext ==
    /\ fn_name = ""
    /\ fn_in.fn = "temporal_context"
    /\ fn_name' = "temporal_context"
    /\ fn_out' = temporal_context(fn_in)
    /\ UNCHANGED << callvars, fn_in, thvars >>

\* the dataset is constructed twice from the same arguments and every item is read
DatasetInit ==
    /\ fn_name = ""
    /\ fn_in.fn = "TemporalGraphDataset"
    /\ fn_name' = "TemporalGraphDataset"
    /\ \E o1, o2 \in ShuffleOrders(fn_in) :
          fn_out' = [first |-> TemporalGraphDataset_items(fn_in, o1),
                     again |-> TemporalGraphDataset_items(fn_in, o2)]
    /\ UNCHANGED << callvars, fn_in, thvars >>

\* a vehicle is inserted into the snapshot: the updated snapshot, the error raised, and the
\* node row synthesized for the vehicle
InsertVehicle ==
    /\ fn_name = ""
    /\ fn_in.fn = "add_vehicle_to_last_snapshot"
    /\ fn_name' = "add_vehicle_to_last_snapshot"
    /\ fn_out' = LET r == add_vehicle_to_last_snapshot(fn_in.current_pt_file, fn_in.req)
                     new == r.snap.x[Len(r.snap.x)]
                 IN [snap |-> r.snap, error |-> r.error,
                     row |-> IF r.error = "none"
                             THEN feature_vector(fn_in.zone, fn_in.num_lanes, fn_in.f,
                                                 new.f23, new.f24)
                             ELSE << >>]
    /\ UNCHANGED << callvars, fn_in, thvars >>

NextFn ==
    \/ InvertToSeconds \/ RoundTrip \/ MoEForward \/ ModelInit \/ Mask \/ TemporalContext
    \/ DatasetInit \/ InsertVehicle

SpecFn == InitFn /\ [][NextFn]_vars

(***************************************************************************)
(* The threads of SUMOSimulation: the background stepping loop and the     *)
(* request-handling threads. An operation is a with-traci_lock block and   *)
(* the TraCI calls made inside it, in order. A thread is "out" of any      *)
(* block, at the "wait" of a with statement, inside the block ("held") or  *)
(* inside a TraCI call ("api").                                            *)
(***************************************************************************)
\* the TraCI calls inside the with block of an operation
TraciCalls(op) ==
    IF op = "_add_vehicle_to_traci"
    THEN << "route.add", "simulation.getTime", "vehicle.add", "vehicle.subscribe" >>
    ELSE IF op = "simulationStep" THEN << "simulationStep" >>
    ELSE IF op = "get_active_vehicles"
    THEN << "vehicle.getIDList", "vehicle.getPosition", "vehicle.getSpeed",
            "vehicle.getRoadID", "vehicle.getTypeID" >>
    ELSE IF op = "_check_user_defined_vehicles" THEN << "simulation.getTime" >>
    ELSE IF op = "reconnect" THEN << "start" >>
    ELSE IF op = "calculate_route_by_edges"
    THEN << "simulation.getMinExpectedNumber", "simulation.findRoute" >>
    ELSE IF op = "add_journey_vehicle"
    THEN << "simulation.getMinExpectedNumber", "route.add", "simulation.getTime",
            "vehicle.add", "vehicle.subscribe" >>
    ELSE << >>

\* operations a thread may begin after operation op: the stepping loop runs its body in
\* order (trips and the check of user-defined vehicles only when there are any); a request
\* thread serves any endpoint
NextOps(t, op) ==
    IF t = LoopThread
    THEN IF op \in {"", "_check_user_defined_vehicles", "reconnect"}
         THEN {"_add_vehicle_to_traci", "simulationStep"}
         ELSE IF op = "_add_vehicle_to_traci" THEN {"_add_vehicle_to_traci", "simulationStep"}
         ELSE IF op = "simulationStep" THEN {"get_active_vehicles"}
         ELSE {"_check_user_defined_vehicles", "_add_vehicle_to_traci", "simulationStep"}
    ELSE {"get_active_vehicles", "calculate_route_by_edges", "add_journey_vehicle"}

\* a lock that lets a thread in while another holds it
CanAcquireAlways(lock) == TRUE

\* threading.Lock: acquire goes through only while no thread holds the lock
CanAcquire(lock) == lock = NoThread

\* the thread reaches the with statement of its next operation
Begin(t) ==
    /\ threads[t].at = "out"
    /\ \E op \in NextOps(t, threads[t].op) :
          threads' = [threads EXCEPT ![t] = [op |-> op, i |-> 1, at |-> "wait"]]
    /\ UNCHANGED << traci_lock, callvars, fnvars >>

\* with self.traci_lock: __enter__
Acquire(t) ==
    /\ threads[t].at = "wait"
    /\ CanAcquire(traci_lock)
    /\ traci_lock' = t
    /\ threads' = [threads EXCEPT ![t].at = "held"]
    /\ UNCHANGED << callvars, fnvars >>

\* the thread enters the next TraCI call of the block
EnterCall(t) ==
    /\ threads[t].at = "held"
    /\ threads[t].i <= Len(TraciCalls(threads[t].op))
    /\ threads' = [threads EXCEPT ![t].at = "api"]
    /\ UNCHANGED << traci_lock, callvars, fnvars >>

\* the TraCI call returns
ReturnCall(t) ==
    /\ threads[t].at = "api"
    /\ threads' = [threads EXCEPT ![t].at = "held", ![t].i = @ + 1]
    /\ UNCHANGED << traci_lock, callvars, fnvars >>

\* the TraCI call raises. The per-vehicle reads of get_active_vehicles catch it inside the
\* block and go on to the next vehicle; everywhere else the exception (or the return of the
\* handler) leaves the with block, which releases the lock, and the handlers of the stepping
\* loop and of get_active_vehicles may go on to reconnect
RaiseCall(t) ==
    /\ threads[t].at = "api"
    /\ IF threads[t].op = "get_active_vehicles" /\ threads[t].i >= 2
       THEN /\ threads' = [threads EXCEPT ![t].at = "held",
                                          ![t].i = Len(TraciCalls("get_active_vehicles")) + 1]
            /\ UNCHANGED traci_lock
       ELSE /\ traci_lock' = NoThread
            /\ \/ threads' = [threads EXCEPT ![t].at = "out"]
               \/ /\ threads[t].op \in {"simulationStep", "get_active_vehicles"}
                  /\ threads' = [threads EXCEPT ![t] = [op |-> "reconnect", i |-> 1,
                                                        at |-> "wait"]]
    /\ UNCHANGED << callvars, fnvars >>

\* with self.traci_lock: __exit__ at the end of the block
Release(t) ==
    /\ threads[t].at = "held"
    /\ threads[t].i > Len(TraciCalls(threads[t].op))
    /\ traci_lock' = NoThread
    /\ threads' = [threads EXCEPT ![t].at = "out"]
    /\ UNCHANGED << callvars, fnvars >>

NextThreads ==
    \E t \in Threads :
        Begin(t) \/ Acquire(t) \/ EnterCall(t) \/ ReturnCall(t) \/ RaiseCall(t) \/ Release(t)

\* the service with no inference call running
InitThreads ==
    /\ data_files = {}
    /\ disk = [f \in data_files |-> NoSnapshot]
    /\ window_size = 1
    /\ stride_size = 1
    /\ CallLocalsInit
    /\ entry = "inf"
    /\ FnIdle
    /\ ThreadsInit

SpecThreads == InitThreads /\ [][NextThreads]_vars

(***************************************************************************)
(* Properties.                                                             *)
(***************************************************************************)
\* the mutator has returned in the current call
Inserted == pc \in {"forward", "done"}

\* the snapshot the mutator returned
Updated == temporal_window[updated_ref]

VehicleRows(snap) == {i \in 1..Len(snap.x) : snap.x[i].node_type = 1}

RawDemand(snap, e) == _denormalize_edge_demand(snap.edge_attr[e + 1].demand)

\* C1: after add_vehicle_to_last_snapshot the node count is the previous node count + 1, the
\* number of vehicle_route_left_splits entries is the previous vehicle count + 1, the new
\* vehicle is the last node row and the last vehicle index, and the last prediction is the
\* new vehicle's.
C1_InsertionInvariant ==
    Inserted =>
        /\ Len(Updated.x) = Len(given_pt_file.x) + 1
        /\ Len(Updated.vehicle_route_left_splits) = Cardinality(VehicleRows(given_pt_file)) + 1
        /\ Updated.x[Len(Updated.x)].node_type = 1
        /\ Updated.vehicle_ids[Len(Updated.vehicle_ids)] = request.veh_id
        /\ Len(Updated.vehicle_ids) = Cardinality(VehicleRows(Updated))
        /\ Len(Updated.junction_ids) + Len(Updated.vehicle_ids) = Len(Updated.x)
        /\ (pc = "done" => /\ Len(yhat_rows) = Len(Updated.vehicle_ids)
                           /\ yhat_rows[Len(yhat_rows)] = Len(Updated.x) - 1)

C1_Witness ==
    /\ pc = "done"
    /\ Len(given_pt_file.vehicle_ids) = MaxVeh
    /\ Len(request.route_edges) = MaxRoute

\* C2: for every edge of the request's route that the snapshot lists, the raw demand after
\* the insertion is the raw demand before it + 1, exactly; in particular when
\* current_edge_id = route_edges[0] that edge gains 1 and not 2.
C2_DemandPropagation ==
    Inserted =>
        \A k \in 1..Len(request.route_edges) :
            request.route_edges[k] \in Range(given_pt_file.edge_ids) =>
                LET e == IndexOf(given_pt_file.edge_ids, request.route_edges[k])
                IN RawDemand(Updated, e) = RawDemand(given_pt_file, e) + 1

C2_Witness ==
    /\ Inserted
    /\ Len(request.route_edges) = 2
    /\ request.route_edges[1] = request.current_edge_id
    /\ request.route_edges[2] # request.route_edges[1]
    /\ request.route_edges[2] \in Range(given_pt_file.edge_ids)
    /\ RawDemand(given_pt_file, IndexOf(given_pt_file.edge_ids, request.current_edge_id)) >= 1
    /\ RawDemand(given_pt_file, IndexOf(given_pt_file.edge_ids, request.route_edges[2])) >= 1

(***************************************************************************)
(* Dynamic-edge reconciliation (C3, C4, C5).                               *)
(***************************************************************************)
NewVehicleIdx == Len(given_pt_file.vehicle_ids)

NewVehicleNode == Len(given_pt_file.junction_ids) + NewVehicleIdx

\* the road segment the request puts the vehicle on
TargetEdge == IndexOf(given_pt_file.edge_ids, request.current_edge_id)

Origin(snap, e) == snap.edge_index[e + 1][1]

Destination(snap, e) == snap.edge_index[e + 1][2]

VehiclesOn(snap, e) ==
    {i \in 0..(Len(snap.vehicle_ids) - 1) : snap.current_vehicle_current_edges[i + 1] = e}

RemoveAt(s, k) == SubSeq(s, 1, k - 1) \o SubSeq(s, k + 1, Len(s))

\* C3: inserting a vehicle onto an edge that no existing vehicle occupies appends exactly two
\* dynamic edges and removes none: type 1 from the edge's origin junction to the new vehicle
\* and type 2 from the new vehicle to the edge's destination junction, both with all-zero
\* edge features.
C3_EmptyEdgeInsertion ==
    (Inserted /\ VehiclesOn(given_pt_file, TargetEdge) = {}) =>
        LET n == Len(given_pt_file.edge_type)
        IN /\ Updated.edge_index =
                  given_pt_file.edge_index
                      \o << << Origin(given_pt_file, TargetEdge), NewVehicleNode >>,
                            << NewVehicleNode, Destination(given_pt_file, TargetEdge) >> >>
           /\ Updated.edge_type = given_pt_file.edge_type \o << 1, 2 >>
           /\ Len(Updated.edge_attr) = n + 2
           /\ Updated.edge_attr[n + 1] = ZeroAttr
           /\ Updated.edge_attr[n + 2] = ZeroAttr

\* C4: inserting a vehicle onto an edge that already has a vehicle removes exactly one
\* pre-existing type-1 edge, the one from the origin junction to the existing vehicle with
\* the smallest position, and appends exactly two dynamic edges: type 1 from the origin
\* junction to the new vehicle and type 3 from the new vehicle to that former first vehicle.
C4_OccupiedEdgeInsertion ==
    (Inserted /\ VehiclesOn(given_pt_file, TargetEdge) # {}) =>
        \E f \in VehiclesOn(given_pt_file, TargetEdge) :
            /\ \A w \in VehiclesOn(given_pt_file, TargetEdge) :
                  given_pt_file.current_vehicle_position_on_edges[f + 1]
                      <= given_pt_file.current_vehicle_position_on_edges[w + 1]
            /\ \E k \in 1..Len(given_pt_file.edge_type) :
                  LET first == Len(given_pt_file.junction_ids) + f
                      origin == Origin(given_pt_file, TargetEdge)
                  IN /\ given_pt_file.edge_type[k] = 1
                     /\ given_pt_file.edge_index[k] = << origin, first >>
                     /\ Updated.edge_index =
                            RemoveAt(given_pt_file.edge_index, k)
                                \o << << origin, NewVehicleNode >>, << NewVehicleNode, first >> >>
                     /\ Updated.edge_type = RemoveAt(given_pt_file.edge_type, k) \o << 1, 3 >>
                     /\ Len(Updated.edge_attr) = Len(given_pt_file.edge_attr) + 1

SegmentNodes(snap, e) == {Len(snap.junction_ids) + i : i \in VehiclesOn(snap, e)}

\* the Junction->Vehicle edges from the segment's origin to a vehicle of the segment
HeadEdges(snap, e) ==
    {k \in 1..Len(snap.edge_type) :
        /\ snap.edge_type[k] = 1
        /\ snap.edge_index[k][1] = Origin(snap, e)
        /\ snap.edge_index[k][2] \in SegmentNodes(snap, e)}

\* the dynamic edges coming into a vehicle node
IncomingDynamic(snap, node) ==
    {k \in 1..Len(snap.edge_type) : snap.edge_type[k] \in {1, 3} /\ snap.edge_index[k][2] = node}

Followers(snap, node) ==
    {snap.edge_index[k][2] : k \in {j \in 1..Len(snap.edge_type) :
                                        snap.edge_type[j] = 3 /\ snap.edge_index[j][1] = node}}

\* the nodes met on the Vehicle->Vehicle edges from node, at most n of them
RECURSIVE ChainFrom(_, _, _)
ChainFrom(snap, node, n) ==
    IF n = 0 THEN {}
    ELSE {node} \cup (IF Followers(snap, node) = {} THEN {}
                      ELSE ChainFrom(snap, CHOOSE v \in Followers(snap, node) : TRUE, n - 1))

\* origin junction -> head -> ... -> tail -> destination junction over all vehicles of e
SingleChain(snap, e, head) ==
    /\ Cardinality(HeadEdges(snap, e)) = 1
    /\ \A k \in HeadEdges(snap, e) : snap.edge_index[k][2] = head
    /\ \A v \in SegmentNodes(snap, e) : Cardinality(IncomingDynamic(snap, v)) = 1
    /\ ChainFrom(snap, head, Cardinality(SegmentNodes(snap, e))) = SegmentNodes(snap, e)
    /\ \E tail \in SegmentNodes(snap, e) :
          /\ Followers(snap, tail) = {}
          /\ \E k \in 1..Len(snap.edge_type) :
                /\ snap.edge_type[k] = 2
                /\ snap.edge_index[k] = << tail, Destination(snap, e) >>

FormsChain(snap, e) ==
    \/ VehiclesOn(snap, e) = {}
    \/ \E head \in SegmentNodes(snap, e) : SingleChain(snap, e, head)

\* C5: if before the insertion the vehicles on the target segment form one chain from the
\* origin junction to the destination junction, then after it the segment has exactly one
\* Junction->Vehicle edge from its origin, every vehicle on it has exactly one incoming
\* dynamic edge and all of them, the new vehicle first, lie on one chain that ends at the
\* tail's Vehicle->Junction edge; also when existing vehicles share the smallest position.
C5_SingleChain ==
    (Inserted /\ FormsChain(given_pt_file, TargetEdge)) =>
        SingleChain(Updated, TargetEdge, NewVehicleNode)

(***************************************************************************)
(* Clone and isolation (C6, C7).                                           *)
(***************************************************************************)
\* C6: add_vehicle_to_last_snapshot never edits in place: after the call the object it was
\* given is unchanged and the returned snapshot is a distinct object.
C6_NoInPlaceEdit ==
    Inserted =>
        /\ temporal_window[Len(temporal_window)] = given_pt_file
        /\ updated_ref # Len(temporal_window)

\* every frame of the loaded window has the content of its snapshot file
StoredWindow ==
    \A k \in 1..Len(temporal_window) :
        temporal_window[k] = disk[pt_files[window_indices[k] + 1]]

\* C7: over any sequence of inference calls no call writes a snapshot file, and the window
\* a later call loads holds the snapshots as stored, without any vehicle, edge statistic or
\* dynamic edge an earlier call put there.
C7_Isolation ==
    [][disk' = disk /\ (pc' = "insert" => StoredWindow')]_vars

\* a later call has loaded its window after an earlier call edited and returned a snapshot
C7_Witness ==
    /\ pc = "insert"
    /\ updated_ref # 0
    /\ StoredWindow

(***************************************************************************)
(* Window loading (C8, C9, C10).                                           *)
(***************************************************************************)
WindowSteps == [k \in 1..Len(temporal_window) |-> temporal_window[k].step]

Increasing(s) == \A k \in 1..(Len(s) - 1) : s[k] < s[k + 1]

\* C8 as stated: for every target time the loaded window has exactly window_size frames
\* whose step numbers are increasing.
C8_WindowChronological ==
    pc = "insert" => (Len(temporal_window) = window_size /\ Increasing(WindowSteps))

\* C8: for every target time the loaded window has exactly window_size frames; their step
\* numbers are increasing exactly when the closest file has window_size - 1 files before
\* it, otherwise the window wraps around to the end of the file list.
C8_WindowLengthAndOrder ==
    pc = "insert" =>
        /\ Len(temporal_window) = window_size
        /\ Increasing(WindowSteps) <=> current_file_idx >= window_size - 1

\* a target time before the first snapshot of a dataset that has enough files for a window
C8_Witness ==
    /\ pc = "insert"
    /\ window_size >= 2
    /\ Cardinality(data_files) >= window_size
    /\ \A f \in data_files : current_time < f
    /\ Len(temporal_window) = window_size
    /\ ~Increasing(WindowSteps)

\* C9: with the files sorted by step number, current_file_idx is the index of the file
\* closest to the target time, the first one on a tie; element i of the window is the file
\* at index (current_file_idx - (W-1-i)) mod N; the last element is the closest snapshot.
C9_WindowSelection ==
    pc = "insert" =>
        LET N == Len(pt_files)
            W == window_size
        IN /\ Range(pt_files) = data_files
           /\ N = Cardinality(data_files)
           /\ Increasing(pt_files)
           /\ current_file_idx \in 0..(N - 1)
           /\ \A j \in 0..(N - 1) :
                 LET d == Abs(pt_files[current_file_idx + 1] - current_time)
                     dj == Abs(pt_files[j + 1] - current_time)
                 IN d <= dj /\ (d = dj => current_file_idx <= j)
           /\ Len(temporal_window) = W
           /\ \A i \in 0..(W - 1) :
                 temporal_window[i + 1] = disk[pt_files[((current_file_idx - (W - 1 - i)) % N) + 1]]
           /\ temporal_window[W] = disk[pt_files[current_file_idx + 1]]

\* a target time midway between its two closest files, and a window of several frames
C9_Witness ==
    /\ pc = "insert"
    /\ window_size >= 2
    /\ current_file_idx + 2 <= Len(pt_files)
    /\ current_time - pt_files[current_file_idx + 1] = pt_files[current_file_idx + 2] - current_time

\* C10: with no snapshot file in the directory, window loading raises FileNotFoundError
\* before any snapshot is loaded or any index computed, and so does the construction of
\* TemporalGraphDataset.
C10_EmptyDirectory ==
    data_files = {} =>
        /\ pc \notin {"insert", "forward", "done"}
        /\ temporal_window = << >>
        /\ window_indices = << >>
        /\ pt_files = << >>
        /\ pc = "raised" => error = "FileNotFoundError"
        /\ (pc = "raised" /\ entry = "inf") =>
              (playback_ds.error = "FileNotFoundError" /\ playback_ds.windows = << >>)

\* window loading has raised on an empty directory
C10_Witness ==
    /\ data_files = {}
    /\ pc = "raised"
    /\ entry = "rt"
    /\ error = "FileNotFoundError"

\* what the call hands back: the rows the predictions belong to, the frames and the
\* projection weights the updated pass computed with, and the same for the baseline pass
Result ==
    [rows |-> yhat_rows, window |-> temporal_window, proj |-> yhat_proj,
     original |-> yhat_original]

\* the result of predict_eta(t, req) as the first call of a process that serves with the
\* same predictor on the same files, checkpoint and seed
FirstCallResult(t, req) ==
    LET rng0 == IF entry = "rt" THEN set_seed ELSE << "model" >>
        ds == TemporalGraphDataset(data_files, window_size, stride_size,
                                   PlaybackNumFiles, PlaybackStartIdx(t))
        files == [k \in 1..(ds.windows[1][2] - ds.windows[1][1]) |->
                     ds.files[ds.windows[1][1] + k]]
        base == IF entry = "inf"
                THEN TemporalAggregator_forward(<< >>, rng0, Len(files) - 1)
                ELSE [proj |-> << >>, rng |-> rng0, used |-> << >>]
        loaded == _load_temporal_window(t).temporal_window
        last == Len(loaded)
        window == [loaded EXCEPT ![last] = add_vehicle_to_last_snapshot(loaded[last], req).snap]
        agg == TemporalAggregator_forward(base.proj, set_seed, last - 1)
    IN [rows |-> VehMaskRows(window[last]),
        window |-> window,
        proj |-> agg.used,
        original |-> IF entry = "inf"
                     THEN [files |-> files, rows |-> VehMaskRows(disk[files[Len(files)]]),
                           proj |-> base.used]
                     ELSE NoBaseline]

\* C11: an inference call's result is determined by its inputs (target time, request,
\* stored snapshots, weights, seed): whatever calls the process served before, it is the
\* result the same call gives as the first call of the process.
C11_Deterministic == pc = "done" => Result = FirstCallResult(current_time, request)

\* a call has returned a result computed with the temporal projections that an earlier
\* call of the process drew: this call has drawn nothing since it seeded the generators
C11_Witness ==
    /\ pc = "done"
    /\ entry = "rt"
    /\ yhat_proj # << >>
    /\ rng_state = << >>

\* C12: the random number generators are reseeded with the configured seed at the start
\* of every inference call.
C12_SeedAtCallStart == pc # "idle" => seed_set

\* C13: invert_to_seconds returns a value >= 0 for each of the five target encodings, every
\* finite model output and every per-graph statistic.
C13_NonNegative ==
    (fn_name = "invert_to_seconds" /\ fn_in.target_key \in TargetKeys) =>
        (fn_out.returned /\ fn_out.value >= 0)

\* an encoding that maps the output below zero before the clamp: a negative z-score with a
\* positive deviation and a mean that does not make up for it
C13_Witness ==
    /\ fn_name = "invert_to_seconds"
    /\ fn_in.target_key = "y_z"
    /\ fn_in.eta_std > 0
    /\ fn_in.y_like * fn_in.eta_std + fn_in.eta_mean < 0
    /\ fn_out.value = 0

\* C14: for a target key outside the five known keys invert_to_seconds raises ValueError
\* and returns no value, whatever the other arguments.
C14_UnknownKeyRaises ==
    (fn_name = "invert_to_seconds" /\ fn_in.target_key \notin TargetKeys) =>
        (fn_out.error = "ValueError" /\ ~fn_out.returned)

\* a misspelt key with an output that every known encoding would have inverted
C14_Witness ==
    /\ fn_name = "invert_to_seconds"
    /\ fn_in.target_key = "y_log_zz"
    /\ fn_in.y_like > 0
    /\ fn_out.error = "ValueError"

\* C15: for every stored demand, occupancy and speed value x, normalising the denormalised
\* value gives x again.
C15_RoundTrip == fn_name = "round_trip" => fn_out.back = fn_in.x

\* the stored demand of a road that several routes pass has gone through the round trip
C15_Witness ==
    /\ fn_name = "round_trip"
    /\ fn_in.kind = "demand"
    /\ fn_out.raw >= 2
    /\ fn_out.back = fn_in.x

\* the mutator has been called in the current call and has returned or raised
InsertionEnded == pc \in {"forward", "done", "raised"} /\ request # NoRequest

\* C16: if the request's current edge id is not in the snapshot's edge id list, the insertion
\* does not fail: it completes and returns a snapshot that contains the new vehicle.
C16_UnknownCurrentEdge ==
    (InsertionEnded /\ request.current_edge_id \notin Range(given_pt_file.edge_ids)) =>
        /\ Inserted
        /\ error = "none"
        /\ request.veh_id \in Range(Updated.vehicle_ids)

\* part of the remaining-route array that the insertion appended for the new vehicle
AppendedRoute(snap) ==
    SubSeq(snap.vehicle_route_left,
           Len(snap.vehicle_route_left) - Len(request.route_edges) + 1,
           Len(snap.vehicle_route_left))

\* C17: if a route edge id is not in the snapshot's edge id list, the insertion completes
\* without raising, whatever the edge's position in the route and whichever vehicles are on
\* the current edge, and the appended remaining route has len(route_edges) entries with
\* that edge written as index 0.
C17_UnknownRouteEdge ==
    (/\ InsertionEnded
     /\ request.current_edge_id \in Range(given_pt_file.edge_ids)
     /\ \E k \in 1..Len(request.route_edges) :
           request.route_edges[k] \notin Range(given_pt_file.edge_ids)) =>
        /\ Inserted
        /\ error = "none"
        /\ Len(Updated.vehicle_route_left) =
              Len(given_pt_file.vehicle_route_left) + Len(request.route_edges)
        /\ Updated.vehicle_route_left_splits[Len(Updated.vehicle_route_left_splits)] =
              Len(request.route_edges)
        /\ \A k \in 1..Len(request.route_edges) :
              AppendedRoute(Updated)[k] = EdgeIndexOrZero(given_pt_file, request.route_edges[k])

\* the dynamic-edge reconciliation was carried out: the new vehicle has the edge from a
\* junction that leads to it and an edge that leads on from it
DynamicEdgesBuilt(snap) ==
    /\ \E i \in 1..Len(snap.edge_type) :
          snap.edge_type[i] = 1 /\ snap.edge_index[i][2] = NewVehicleNode
    /\ \E i \in 1..Len(snap.edge_type) :
          snap.edge_type[i] \in {2, 3} /\ snap.edge_index[i][1] = NewVehicleNode

\* C18: whenever a step of the insertion cannot be carried out, the inference call ends in
\* an error to the caller: no predicted ETA is produced from a partly applied insertion.
C18_NoEtaFromPartialInsertion == pc = "done" => DynamicEdgesBuilt(Updated)

\* the files of the window the vehicle was inserted into, oldest first
InsertionWindowFiles == [k \in 1..Len(window_indices) |-> pt_files[window_indices[k] + 1]]

\* the vehicle whose node row (0-based) a prediction belongs to
VehicleAtRow(snap, row) == snap.vehicle_ids[row - Len(snap.junction_ids) + 1]

\* last frame of the baseline window
BaselineLastFrame == disk[yhat_original.files[Len(yhat_original.files)]]

\* C19: the average impact of Inference.predict_eta is the mean ETA change of the vehicles
\* already in the snapshot: for every step the baseline window and the insertion window are
\* the same snapshot files, and entry i of the baseline predictions and entry i of the
\* updated predictions belong to the same pre-existing vehicle.
C19_ImpactComparesSameVehicles ==
    (pc = "done" /\ entry = "inf") =>
        /\ yhat_original.files = InsertionWindowFiles
        /\ \A i \in 1..Len(yhat_original.rows) :
              /\ i <= Len(yhat_rows)
              /\ VehicleAtRow(BaselineLastFrame, yhat_original.rows[i]) =
                    VehicleAtRow(Updated, yhat_rows[i])

\* the experts (0-based ids) the head selected for the vehicle
Selected == Range(fn_out.topk_idx)

\* C20: each vehicle is routed to exactly k distinct experts (k < N), the k experts with
\* the highest router probability; their gate weights are renormalised to sum to 1; the
\* output is the weighted sum of exactly those experts' outputs, no other expert
\* contributing.
C20_TopKRouting ==
    fn_name = "MoEHead.forward" =>
        LET N == Len(fn_in.probs)
        IN /\ fn_in.k < N
           /\ Len(fn_out.topk_idx) = fn_in.k
           /\ Cardinality(Selected) = fn_in.k
           /\ Selected \subseteq 0..(N - 1)
           /\ \A e \in Selected : \A f \in (0..(N - 1)) \ Selected :
                 fn_in.probs[e + 1] >= fn_in.probs[f + 1]
           /\ fn_out.w.den > 0
           /\ SumSeq(fn_out.w.num) = fn_out.w.den
           /\ \A j \in 1..fn_in.k : fn_out.w.num[j] = fn_in.probs[fn_out.topk_idx[j] + 1]
           /\ fn_out.y_hat.den = fn_out.w.den
           /\ fn_out.y_hat.num =
                 SumSeq([e \in 1..N |-> IF (e - 1) \in Selected
                                        THEN fn_in.expert_out[e] * fn_in.probs[e] ELSE 0])

\* two of three experts selected, the one left out having a nonzero output and a positive
\* probability that differs from the others'
C20_Witness ==
    /\ fn_name = "MoEHead.forward"
    /\ Len(fn_in.probs) = 3
    /\ fn_in.k = 2
    /\ \E f \in (0..2) \ Selected :
          /\ fn_in.expert_out[f + 1] # 0
          /\ \A e \in Selected : fn_in.probs[e + 1] > fn_in.probs[f + 1]

\* the threads inside the simulator API
InTraci == {t \in Threads : threads[t].at = "api"}

\* C21: every TraCI call of the stepping loop and of the request threads is made while
\* holding traci_lock, so at most one thread is inside the simulator API at a time.
C21_TraciUnderLock ==
    /\ \A t \in InTraci : traci_lock = t
    /\ Cardinality(InTraci) <= 1

\* a request thread is inside a TraCI call while the stepping loop and another request
\* thread wait at their with statements
C21_Witness ==
    /\ threads[LoopThread].at = "wait"
    /\ \E t, u \in Threads \ {LoopThread} :
          /\ t # u
          /\ threads[t].at = "api"
          /\ threads[t].op = "add_journey_vehicle"
          /\ threads[u].at = "wait"

\* the flags (route awareness, dynamic edges, temporal context) the specification gives for
\* a variant, the last for an aggregator kind other than none
VariantTable(v) ==
    IF v = "base_graph" THEN << FALSE, FALSE, FALSE >>
    ELSE IF v = "dynamic_graph" THEN << FALSE, TRUE, FALSE >>
    ELSE IF v = "route_graph" THEN << TRUE, TRUE, FALSE >>
    ELSE IF v = "temporal_base" THEN << FALSE, FALSE, TRUE >>
    ELSE IF v = "temporal_dynamic" THEN << FALSE, TRUE, TRUE >>
    ELSE << TRUE, TRUE, TRUE >>

\* C22: the ablation variant resolves at construction into (route awareness, dynamic edges,
\* temporal context) as tabulated, temporal context being on for the temporal variants
\* exactly when the aggregator kind is not none; the three non-temporal variants force the
\* kind to none; any other variant name raises ValueError and no model is built.
C22_VariantResolution ==
    fn_name = "TemporalMoEETA.__init__" =>
        LET v == fn_in.ablation_variant
        IN IF v \in AblationVariants
           THEN /\ fn_out.built
                /\ (fn_out.route_awareness = "full") = VariantTable(v)[1]
                /\ fn_out.route_awareness \in {"full", "none"}
                /\ fn_out.use_dynamic_edges = VariantTable(v)[2]
                /\ fn_out.use_temporal_context =
                      (VariantTable(v)[3] /\ fn_in.temporal_kind # "none")
                /\ fn_out.temporal_kind =
                      IF VariantTable(v)[3] THEN fn_in.temporal_kind ELSE "none"
           ELSE fn_out.error = "ValueError" /\ ~fn_out.built

\* a variant name that only the masking code knows is refused, whatever the aggregator kind
C22_Witness ==
    /\ fn_name = "TemporalMoEETA.__init__"
    /\ fn_in.ablation_variant = "no_route"
    /\ fn_in.temporal_kind = "gru"
    /\ ~fn_out.built

\* C23: the route-aware vehicle slots (10-11, 23-24, 25-26) and the edge slots 5-6 are
\* zeroed if and only if the active variant disables route awareness; for route_graph and
\* temporal_route_aware they reach the encoder unmodified; junction rows are never masked.
C23_MaskingFollowsRouteAwareness ==
    fn_name = "mask" =>
        LET off == ~VariantTable(fn_in.ablation_variant)[1]
        IN /\ fn_in.x[1] = 0 => fn_out.x = fn_in.x
           /\ fn_in.x[1] = 1 =>
                 \A slot \in {10, 11, 23, 24, 25, 26} :
                     fn_out.x[slot + 1] = IF off THEN 0 ELSE fn_in.x[slot + 1]
           /\ \A slot \in {5, 6} :
                 fn_out.edge_attr[slot + 1] = IF off THEN 0 ELSE fn_in.edge_attr[slot + 1]

\* bt.edge_attr[bt.edge_type == 0] as the forward pass of variant v hands it to the
\* temporal aggregator
static_edge_features(bt, v) ==
    LET rows == SelectMask(bt.edge_attr, [k \in 1..Len(bt.edge_type) |-> bt.edge_type[k] = 0])
    IN IF v \in {"temporal_base", "temporal_dynamic"}
       THEN [k \in 1..Len(rows) |-> [rows[k] EXCEPT !.demand = 0, !.occupancy = 0]]
       ELSE rows

\* a forward pass that collects the static edge features of every frame, the last included
StaticEdgeFeaturesAllFrames(window, v) ==
    [t \in 1..Len(window) |-> static_edge_features(window[t], v)]

\* static_edge_features_temporal: collected from the frames t < T - 1
static_edge_features_temporal(window, v) ==
    [t \in 1..(Len(window) - 1) |-> static_edge_features(window[t], v)]

\* torch.zeros(Nv, d_hidden)
ZeroContext == [zeros |-> TRUE, seq |-> << >>, proj |-> << >>]

\* ctx_veh of the forward pass of a model built from cfg with aggregator projections proj:
\* the zero vector, or the pooled projection of the aggregate of the collected features
\* (a value determined by these features and the parameters), the same row for every vehicle
ctx_veh(window, cfg, proj) ==
    LET seq == static_edge_features_temporal(window, cfg.ablation_variant)
    IN IF TemporalMoEETA_init(cfg).use_temporal_context /\ Len(seq) > 0
       THEN [zeros |-> FALSE, seq |-> seq, proj |-> proj]
       ELSE ZeroContext

\* the window of the call as it is stored, without the inserted vehicle
WindowOnDisk == [k \in 1..Len(window_indices) |-> disk[pt_files[window_indices[k] + 1]]]

C25_ShapeMismatchZeroContext ==
    (fn_name = "temporal_context" /\ ~_all_same_shape(fn_in.rows)) =>
        /\ ~fn_out.raised
        /\ fn_out.warned
        /\ fn_out.ctx_global = << 0, 0 >>

\* C26: the current-edge index appended for the new vehicle, and the road segment whose
\* occupants and junctions the dynamic-edge reconciliation uses, are those of the request's
\* current_edge_id, also when route_edges[0] differs from it or route_edges is empty.
C26_CurrentEdgeOfRequest ==
    Inserted =>
        LET cur == Updated.current_vehicle_current_edges
            e == IndexOf(Updated.edge_ids, request.current_edge_id)
            new == Len(Updated.x) - 1
            \* nodes of the segment: the junctions its id names and the vehicles on it
            nodes ==
                {IndexOf(Updated.junction_ids, j) :
                    j \in Range(FindJunctionTokens(Updated.edge_ids[e + 1]))
                          \cap Range(Updated.junction_ids)}
                \cup {Len(Updated.junction_ids) + i :
                         i \in {v \in 0..(Len(Updated.vehicle_ids) - 1) : cur[v + 1] = e}}
        IN /\ cur[Len(cur)] = e
           /\ \A k \in 1..Len(Updated.edge_index) :
                 /\ Updated.edge_index[k][1] = new => Updated.edge_index[k][2] \in nodes
                 /\ Updated.edge_index[k][2] = new => Updated.edge_index[k][1] \in nodes

\* C27: the node row synthesized for the new vehicle has exactly 28 slots with slot 0 = 1,
\* slots 1-3 the passenger one-hot, slots 4, 5, 11, 25, 26, 27 = 0, a zone one-hot in 12-15
\* and a lane one-hot in 20-22 (exactly one 1 for a known zone / 1-3 lanes, all zeros
\* otherwise), and slots 23/24 equal to the demand/occupancy stored on the current edge
\* when the insertion has completed (the mutator has just returned).
C27_NewVehicleRow ==
    (fn_name = "add_vehicle_to_last_snapshot" /\ fn_out.error = "none") =>
        LET zone == fn_in.zone
            lanes == fn_in.num_lanes
            row == fn_out.row
            new == fn_out.snap.x[Len(fn_out.snap.x)]
            cur == fn_out.snap.edge_attr[IndexOf(fn_out.snap.edge_ids,
                                                 fn_in.req.current_edge_id) + 1]
            Ones(v) == Cardinality({k \in 1..Len(v) : v[k] = 1})
            zone_oh == SubSeq(row, 13, 16)
            lanes_oh == SubSeq(row, 21, 23)
        IN /\ Len(row) = NodeInDim
           /\ row[1] = 1 /\ new.node_type = row[1]
           /\ SubSeq(row, 2, 4) = << 0, 1, 0 >>
           /\ \A slot \in {4, 5, 11, 25, 26, 27} : row[slot + 1] = 0
           /\ Range(zone_oh) \subseteq {0, 1}
           /\ Ones(zone_oh) = IF zone \in {"A", "B", "C", "H"} THEN 1 ELSE 0
           /\ Range(lanes_oh) \subseteq {0, 1}
           /\ Ones(lanes_oh) = IF lanes \in {1, 2, 3} THEN 1 ELSE 0
           /\ lanes \in {1, 2, 3} => lanes_oh[lanes] = 1
           /\ row[24] = cur.demand /\ new.f23 = row[24]
           /\ row[25] = cur.occupancy /\ new.f24 = row[25]

\* the current edge is on the route and carried vehicles, so its demand was rewritten by
\* the route loop after slot 23 had been computed
C27_Witness ==
    /\ fn_name = "add_vehicle_to_last_snapshot"
    /\ fn_out.error = "none"
    /\ fn_in.req.current_edge_id \in Range(fn_in.req.route_edges)
    /\ Len(fn_in.req.route_edges) = 2
    /\ RawDemand(fn_in.current_pt_file,
                 IndexOf(fn_in.current_pt_file.edge_ids, fn_in.req.current_edge_id)) >= 1
    /\ fn_out.row[24] # 0

\* the windowing of a dataset that was built: the windows are the expected index ranges,
\* in ascending order unless shuffled; every item holds W files, consecutive in the sorted
\* file list and increasing in step; the window list is a permutation, the same at every
\* construction with the same seed
WindowsAsSpecified ==
    LET a == fn_in
        r == fn_out.first
        files == SortedPtFiles(DatasetSteps(a.n))
        \* the index ranges [i, i+W) for i = 0, stride, 2*stride, ... with i+W <= N
        expected ==
            {<< i, i + a.window_size >> :
                i \in {j \in 0..a.n : j % a.stride_size = 0 /\ j + a.window_size <= a.n}}
    IN /\ r.error = "none"
       /\ Range(r.windows) = expected
       /\ Len(r.windows) = Cardinality(expected)
       /\ ~a.shuffle_windows =>
             \A k \in 1..(Len(r.windows) - 1) : r.windows[k][1] < r.windows[k + 1][1]
       /\ \A k \in 1..Len(r.items) :
             /\ Len(r.items[k]) = a.window_size
             /\ \A m \in 1..a.window_size : r.items[k][m] = files[r.windows[k][1] + m]
             /\ \A m \in 1..(a.window_size - 1) : r.items[k][m] < r.items[k][m + 1]
       /\ a.seed # "None" => fn_out.again = fn_out.first

\* C28 (as stated): the windows are exactly the index ranges [i, i+W) for i = 0, stride,
\* 2*stride, ... with i+W <= N; every window holds W files, consecutive and increasing in
\* step order; shuffle_windows permutes the list of windows reproducibly for a given seed
\* and never the order inside a window; N < W raises ValueError.
C28_Windows ==
    fn_name = "TemporalGraphDataset" =>
        IF fn_in.n < fn_in.window_size
        THEN fn_out.first.error = "ValueError" /\ fn_out.first.items = << >>
        ELSE WindowsAsSpecified

\* C28 (amended): as stated for N >= W; 0 < N < W raises ValueError and N = 0 raises
\* FileNotFoundError, in both cases without yielding a window.
C28_WindowsOrError ==
    fn_name = "TemporalGraphDataset" =>
        IF fn_in.n = 0
        THEN fn_out.first.error = "FileNotFoundError" /\ fn_out.first.items = << >>
        ELSE IF fn_in.n < fn_in.window_size
        THEN fn_out.first.error = "ValueError" /\ fn_out.first.items = << >>
        ELSE WindowsAsSpecified

\* a seeded shuffle that moved the first window away, of windows that overlap
C28_Witness ==
    /\ fn_name = "TemporalGraphDataset"
    /\ fn_in.shuffle_windows
    /\ fn_in.seed = "1"
    /\ fn_in.window_size = 2
    /\ fn_in.stride_size = 1
    /\ Len(fn_out.first.windows) >= 3
    /\ fn_out.first.windows[1] # << 0, 2 >>

\* C29: when the insertion updates a route edge's demand, it writes the new normalized
\* demand into slot 23 of exactly the existing vehicles whose current edge is that edge,
\* each addressed by its own node row (junction count + vehicle index); no junction row and
\* no row of a vehicle on another edge is modified.
C29_DemandWrittenToVehicleRows ==
    Inserted =>
        LET nj == Len(given_pt_file.junction_ids)
        IN \A r \in 1..Len(given_pt_file.x) :
              IF r <= nj
              THEN Updated.x[r] = given_pt_file.x[r]
              ELSE LET e == given_pt_file.current_vehicle_current_edges[r - nj]
                   IN IF given_pt_file.edge_ids[e + 1] \in Range(request.route_edges)
                      THEN Updated.x[r] =
                             [given_pt_file.x[r] EXCEPT !.f23 = Updated.edge_attr[e + 1].demand]
                      ELSE Updated.x[r] = given_pt_file.x[r]

\* the edges of the given types as <<source, target, type>>, in the order of the snapshot
EdgesOfTypes(snap, types) ==
    SelectMask([k \in 1..Len(snap.edge_type) |->
                   << snap.edge_index[k][1], snap.edge_index[k][2], snap.edge_type[k] >>],
               [k \in 1..Len(snap.edge_type) |-> snap.edge_type[k] \in types])

\* C30: add_vehicle_to_last_snapshot leaves unchanged the number, order and endpoints of the
\* static (type-0) edges, every pre-existing Vehicle->Junction (type-2) and Vehicle->Vehicle
\* (type-3) edge, the junction and edge id lists, and every static-edge feature other than
\* speed/demand/occupancy of the current edge and demand of the edges on the route; the
\* static-edge set keeps the shape it has in the other frames.
C30_EdgeFrame ==
    (fn_name = "add_vehicle_to_last_snapshot" /\ fn_out.error = "none") =>
        LET given == fn_in.current_pt_file
            updated == fn_out.snap
            cur == IndexOf(given.edge_ids, fn_in.req.current_edge_id)
            Static(snap) == {k \in 1..Len(snap.edge_type) : snap.edge_type[k] = 0}
            before == EdgesOfTypes(given, {2, 3})
            after == EdgesOfTypes(updated, {2, 3})
        IN /\ Static(updated) = Static(given)
           /\ \A k \in Static(given) : updated.edge_index[k] = given.edge_index[k]
           /\ Len(before) <= Len(after)
           /\ SubSeq(after, 1, Len(before)) = before
           /\ updated.junction_ids = given.junction_ids
           /\ updated.edge_ids = given.edge_ids
           /\ \A k \in Static(given) :
                 k - 1 # cur =>
                    /\ updated.edge_attr[k].speed = given.edge_attr[k].speed
                    /\ updated.edge_attr[k].occupancy = given.edge_attr[k].occupancy
                    /\ given.edge_ids[k] \notin Range(fn_in.req.route_edges)
                          => updated.edge_attr[k] = given.edge_attr[k]
           \* the other frames of a window are stored frames: one static edge per edge id
           /\ Static(updated) = 1..Len(EdgeIds)

\* two vehicles were chained on the current edge, so the head edge of the chain was removed
\* while their type-2 and type-3 edges stayed, and a route edge other than the current one
\* got a new demand
C30_Witness ==
    /\ fn_name = "add_vehicle_to_last_snapshot"
    /\ fn_out.error = "none"
    /\ EdgesOfTypes(fn_in.current_pt_file, {3}) # << >>
    /\ EdgesOfTypes(fn_out.snap, {3}) # EdgesOfTypes(fn_in.current_pt_file, {3})
    /\ EdgesOfTypes(fn_out.snap, {1}) # EdgesOfTypes(fn_in.current_pt_file, {1})
    /\ Len(EdgesOfTypes(fn_out.snap, {1})) = Len(EdgesOfTypes(fn_in.current_pt_file, {1}))
    /\ \E k \in 1..Len(fn_out.snap.edge_ids) :
          /\ k - 1 # IndexOf(fn_out.snap.edge_ids, fn_in.req.current_edge_id)
          /\ fn_out.snap.edge_attr[k] # fn_in.current_pt_file.edge_attr[k]

====
